---- MODULE Spec2Model ----
(***************************************************************************)
(* ez-badges: the colour resolver, the recolorer, the badge layout and     *)
(* renderer (utils/colorUtils, utils/badgeUtils), the icon pipeline and    *)
(* the image classifier (utils/iconUtils.js), the static badge route, the  *)
(* dynamic badge route with DynamicBadge.generate, and the /test route.    *)
(* From the earlier server variants: fetchImage and processPixelImage of   *)
(* src/new.js, and processLogo with its LRU cache.  From DynamicBadge.js:  *)
(* the view counter and the names of its count files.                      *)
(*                                                                         *)
(* A JavaScript string is a sequence of one-character strings.  A          *)
(* JavaScript value is a record tagged by its typeof: [t |-> "string",     *)
(* s |-> <<...>>], [t |-> "undefined"], [t |-> "null"], [t |-> "number"],  *)
(* [t |-> "array"], [t |-> "object"].                                      *)
(***************************************************************************)
EXTENDS Integers, Sequences, FiniteSets, TLC

VARIABLES
  colorArg,      \* parseColor: the argument of the call
  colorRet,      \* parseColor: the returned value, Pending before the return
  badgeArgs,     \* generateBadgeSvg: text, bgColor, iconData, textColor, edges
  badgeDims,     \* generateBadgeSvg: what its call of calculateBadgeDimensions returned
  badgeSvg,      \* generateBadgeSvg: the returned markup, or the exception thrown
  svgArg,        \* changeSvgColor: the markup passed, a string of the nodes it holds
  targetArg,     \* changeSvgColor: the target colour passed
  svgRet,        \* changeSvgColor: the returned markup
  pc,            \* GET /badge: where the request is
  req,           \* GET /badge: the query parameters, defaults applied
  url,           \* generateIcon: what resolveIconUrl returned or threw
  gets,          \* fetchImage: the GETs issued, each with its timeout and outcome
  fetched,       \* generateIcon: `buffer`, what fetchImage returned (Null on failure)
  sharpMetadata, \* processPixelImage of src/new.js: `metadata`, what sharp(buffer).metadata() resolved with
  viewCalls,     \* incrementViewCount: the calls in flight for one repo, each with its position and newCount
  memoryViews,   \* memoryStorage.get(repo), Null while the Map has no entry
  redisViews,    \* the Redis value of views:<repo>, Null while the key is absent
  memoryRepos,   \* initializeMemoryStorage: the keys of memoryStorage loaded from the count files
  storageFiles,  \* the names of the files in STORAGE_PATH
  logoCalls,     \* processLogo: the calls, each with its arguments, position and returned value
  logoCache,     \* logoCache: the entries of the LRU cache, by cache key
  sanitizedSvg,  \* processSvgImage: `svg`, what DOMPurify's sanitize returned or threw
  handed,        \* generateIcon: the processors the buffer was given to
  processed,     \* generateIcon: `result`, what the processor returned
  iconResult,    \* generateStaticBadge: `iconData`, what generateIcon returned
  res,           \* GET /badge: the response sent
  dynamicValue,  \* DynamicBadge.generate: what fetchData returned or threw
  generated,     \* DynamicBadge.generate: the markup the returned promise resolved with
  bufferArg,     \* isValidImageBuffer: the buffer passed
  validRet       \* isValidImageBuffer: the returned boolean, Pending before the return

colorVars == <<colorArg, colorRet>>

layoutVars == <<badgeArgs, badgeDims, badgeSvg>>

recolorVars == <<svgArg, targetArg, svgRet>>

dynamicVars == <<dynamicValue, generated>>

classifyVars == <<bufferArg, validRet>>

routeVars == <<pc, req, url, gets, fetched, logoCache, logoCalls, storageFiles, memoryRepos, redisViews, memoryViews, viewCalls, sharpMetadata, sanitizedSvg, handed, processed, iconResult, res, dynamicVars>>

vars == <<colorVars, layoutVars, recolorVars, routeVars, classifyVars>>

\* ------------------------------------------------------------------------
\* JavaScript values and string primitives
\* ------------------------------------------------------------------------

Str(s) == [t |-> "string", s |-> s]

Undefined == [t |-> "undefined"]

Null == [t |-> "null"]

Pending == [t |-> "pending"]

\* a JavaScript value in a condition: the empty string, undefined and null
\* are falsy
Truthy(v) == IF v.t = "string" THEN v.s # <<>> ELSE v.t \notin {"undefined", "null"}

NonStrings == {Undefined, Null, [t |-> "number"], [t |-> "array"], [t |-> "object"]}

UpperCase ==
  <<"A","B","C","D","E","F","G","H","I","J","K","L","M",
    "N","O","P","Q","R","S","T","U","V","W","X","Y","Z">>

LowerCase ==
  <<"a","b","c","d","e","f","g","h","i","j","k","l","m",
    "n","o","p","q","r","s","t","u","v","w","x","y","z">>

toLowerCaseChar(c) ==
  IF \E i \in 1..26 : UpperCase[i] = c
    THEN LowerCase[CHOOSE i \in 1..26 : UpperCase[i] = c]
    ELSE c

toUpperCaseChar(c) ==
  IF \E i \in 1..26 : LowerCase[i] = c
    THEN UpperCase[CHOOSE i \in 1..26 : LowerCase[i] = c]
    ELSE c

\* String.prototype.toLowerCase
toLowerCase(s) == [i \in 1..Len(s) |-> toLowerCaseChar(s[i])]

HexDigits == <<"0","1","2","3","4","5","6","7","8","9","a","b","c","d","e","f">>

\* the character class [0-9A-Fa-f]
IsHexChar(c) == \E v \in 1..16 : HexDigits[v] = toLowerCaseChar(c)

\* the regular expression /^[0-9A-Fa-f]{6}$/
IsHex6(s) == Len(s) = 6 /\ \A i \in 1..6 : IsHexChar(s[i])

HexVal(c) == (CHOOSE v \in 1..16 : HexDigits[v] = toLowerCaseChar(c)) - 1

\* parseInt(color.substr(i, 2), 16), on two hex digits; i is 0-based
parseInt16(s, i) == 16 * HexVal(s[i + 1]) + HexVal(s[i + 2])

\* String.prototype.startsWith, endsWith, includes
StartsWith(s, p) == Len(s) >= Len(p) /\ SubSeq(s, 1, Len(p)) = p

EndsWith(s, p) == Len(s) >= Len(p) /\ SubSeq(s, Len(s) - Len(p) + 1, Len(s)) = p

Includes(s, p) == \E i \in 0..(Len(s) - Len(p)) : SubSeq(s, i + 1, i + Len(p)) = p

Whitespace == {" ", "\t", "\n", "\r"}

\* String.prototype.trimStart, trimEnd
trimStart(s) ==
  IF \A i \in 1..Len(s) : s[i] \in Whitespace THEN <<>>
  ELSE SubSeq(s, CHOOSE i \in 1..Len(s) :
                   s[i] \notin Whitespace /\ \A j \in 1..(i - 1) : s[j] \in Whitespace,
              Len(s))

trimEnd(s) ==
  IF \A i \in 1..Len(s) : s[i] \in Whitespace THEN <<>>
  ELSE SubSeq(s, 1, CHOOSE i \in 1..Len(s) :
                      s[i] \notin Whitespace /\ \A j \in (i + 1)..Len(s) : s[j] \in Whitespace)

\* String.prototype.trim
trim(s) == trimEnd(trimStart(s))

DecimalDigits == <<"0","1","2","3","4","5","6","7","8","9">>

RECURSIVE numberToString(_)
\* an integer in a template literal
numberToString(n) ==
  IF n < 0 THEN <<"-">> \o numberToString(0 - n)
  ELSE IF n < 10 THEN <<DecimalDigits[n + 1]>>
  ELSE numberToString(n \div 10) \o <<DecimalDigits[(n % 10) + 1]>>

\* String.prototype.indexOf for one character: 0-based, -1 when absent
indexOf(s, c) ==
  IF \E i \in 1..Len(s) : s[i] = c
    THEN (CHOOSE i \in 1..Len(s) : s[i] = c /\ \A j \in 1..(i - 1) : s[j] # c) - 1
    ELSE -1

\* ------------------------------------------------------------------------
\* utils/constants.js: the palette
\* ------------------------------------------------------------------------

RGB(r, g, b) == [r |-> r, g |-> g, b |-> b]

COLORS ==
     <<"b","l","a","c","k">> :> RGB(0, 0, 0) @@
     <<"w","h","i","t","e">> :> RGB(255, 255, 255) @@
     <<"g","r","a","y","L","i","g","h","t">> :> RGB(245, 245, 247) @@
     <<"g","r","a","y">> :> RGB(128, 128, 128) @@
     <<"g","r","a","y","D","a","r","k">> :> RGB(64, 64, 64) @@
     <<"s","l","a","t","e">> :> RGB(112, 128, 144) @@
     <<"c","h","a","r","c","o","a","l">> :> RGB(54, 69, 79) @@
     <<"b","l","u","e">> :> RGB(0, 122, 255) @@
     <<"l","i","g","h","t","B","l","u","e">> :> RGB(173, 216, 230) @@
     <<"s","k","y","B","l","u","e">> :> RGB(135, 206, 235) @@
     <<"t","e","a","l">> :> RGB(0, 150, 136) @@
     <<"c","y","a","n">> :> RGB(0, 188, 212) @@
     <<"g","r","e","e","n">> :> RGB(76, 175, 80) @@
     <<"m","i","n","t">> :> RGB(152, 251, 152) @@
     <<"s","e","a","f","o","a","m">> :> RGB(120, 219, 226) @@
     <<"o","l","i","v","e">> :> RGB(128, 128, 0) @@
     <<"e","m","e","r","a","l","d">> :> RGB(80, 200, 120) @@
     <<"y","e","l","l","o","w">> :> RGB(255, 235, 59) @@
     <<"a","m","b","e","r">> :> RGB(255, 191, 0) @@
     <<"o","r","a","n","g","e">> :> RGB(255, 152, 0) @@
     <<"p","e","a","c","h">> :> RGB(255, 218, 185) @@
     <<"g","o","l","d">> :> RGB(255, 215, 0) @@
     <<"r","e","d">> :> RGB(244, 67, 54) @@
     <<"c","o","r","a","l">> :> RGB(255, 127, 80) @@
     <<"s","a","l","m","o","n">> :> RGB(250, 128, 114) @@
     <<"p","i","n","k">> :> RGB(255, 192, 203) @@
     <<"r","o","s","e">> :> RGB(255, 102, 102) @@
     <<"p","u","r","p","l","e">> :> RGB(156, 39, 176) @@
     <<"l","a","v","e","n","d","e","r">> :> RGB(230, 230, 250) @@
     <<"l","i","l","a","c">> :> RGB(200, 162, 200) @@
     <<"v","i","o","l","e","t">> :> RGB(148, 0, 211) @@
     <<"i","n","d","i","g","o">> :> RGB(75, 0, 130) @@
     <<"s","a","n","d">> :> RGB(244, 236, 219) @@
     <<"b","e","i","g","e">> :> RGB(245, 245, 220) @@
     <<"i","v","o","r","y">> :> RGB(255, 255, 240) @@
     <<"b","l","u","s","h">> :> RGB(222, 93, 131) @@
     <<"s","a","g","e">> :> RGB(188, 184, 138) @@
     <<"d","u","s","t","y","B","l","u","e">> :> RGB(96, 147, 172) @@
     <<"t","e","r","r","a","c","o","t","t","a">> :> RGB(204, 78, 92)

\* COLORS and ICON_PROVIDERS are object literals: a property read that finds
\* no own property goes on to Object.prototype, whose properties are
\* functions (constructor, toString, ...) or objects (__proto__): truthy
\* values that are neither a colour nor a template string.
ObjectPrototypeKeys ==
  { <<"c","o","n","s","t","r","u","c","t","o","r">>,
    <<"_","_","p","r","o","t","o","_","_">>,
    <<"t","o","S","t","r","i","n","g">>,
    <<"v","a","l","u","e","O","f">>,
    <<"h","a","s","O","w","n","P","r","o","p","e","r","t","y">>,
    <<"i","s","P","r","o","t","o","t","y","p","e","O","f">>,
    <<"t","o","L","o","c","a","l","e","S","t","r","i","n","g">>,
    <<"p","r","o","p","e","r","t","y","I","s","E","n","u","m","e","r","a","b","l","e">> }

\* obj[key] for an object literal obj: an own property, else what the key
\* names on Object.prototype (the prototype itself for __proto__, a function
\* for the others), else undefined
GetProperty(obj, key) ==
  IF key \in DOMAIN obj THEN obj[key]
  ELSE IF key \in ObjectPrototypeKeys
    THEN [t |-> IF key = <<"_","_","p","r","o","t","o","_","_">> THEN "object" ELSE "function",
          inherited |-> key]
  ELSE Undefined

\* ------------------------------------------------------------------------
\* utils/colorUtils: parseColor
\* ------------------------------------------------------------------------

White == COLORS[<<"w","h","i","t","e">>]

parseColor(color) ==
  IF color.t # "string" THEN White
  ELSE IF IsHex6(color.s)
    THEN RGB(parseInt16(color.s, 0), parseInt16(color.s, 2), parseInt16(color.s, 4))
  ELSE LET found == GetProperty(COLORS, toLowerCase(color.s))
       IN  IF found = Undefined THEN White ELSE found

\* ------------------------------------------------------------------------
\* utils/badgeUtils: calculateBadgeDimensions, calculateTextWidth,
\* generateBadgeSvg
\* ------------------------------------------------------------------------

Min(a, b) == IF a < b THEN a ELSE b

\* Math.round(n / d) for d > 0: the nearest integer, a tie going up.  The
\* code divides doubles; for icon widths below 64 the double quotient rounds
\* to the same integer as the exact one.
Round(n, d) == (2 * n + d) \div (2 * d)

\* Math.ceil(n / d) for d > 0
Ceil(n, d) == (n + d - 1) \div d

\* calculateBadgeDimensions with each clamp applied to its own dimension only
ClampEachDimension(iconData) ==
  LET hasIcon == iconData # Null
      w == IF hasIcon THEN Min(iconData.width, 32) ELSE 0
      h == IF ~hasIcon THEN 0
           ELSE IF Min(iconData.height, 20) < 12 THEN 12 ELSE Min(iconData.height, 20)
  IN  [ height      |-> 32,
        iconWidth   |-> w,
        iconHeight  |-> h,
        padding     |-> 12,
        iconPadding |-> IF hasIcon THEN 8 ELSE 0,
        iconX       |-> 12,
        iconY       |-> Round(32 - h - 2, 2),
        textX       |-> 12 + w + (IF hasIcon THEN 8 ELSE 0),
        textY       |-> Round(32 + 8, 2) ]

calculateBadgeDimensions(iconData) ==
  LET hasIcon     == iconData # Null
      padding     == 12
      iconPadding == IF hasIcon THEN 8 ELSE 0
      height      == 32
      \* Math.min, then the aspect-ratio correction of whichever clamp applied
      clamped ==
        LET w0 == Min(iconData.width, 32)
            h0 == Min(iconData.height, 20)
        IN  IF w0 < iconData.width
              THEN [w |-> w0, h |-> Round(w0 * iconData.height, iconData.width)]
            ELSE IF h0 < iconData.height
              THEN [w |-> Round(h0 * iconData.width, iconData.height), h |-> h0]
            ELSE [w |-> w0, h |-> h0]
      \* the minimum height
      box ==
        IF ~hasIcon THEN [w |-> 0, h |-> 0]
        ELSE IF clamped.h < 12
          THEN [w |-> Round(12 * iconData.width, iconData.height), h |-> 12]
        ELSE clamped
  IN  [ height      |-> height,
        iconWidth   |-> box.w,
        iconHeight  |-> box.h,
        padding     |-> padding,
        iconPadding |-> iconPadding,
        iconX       |-> padding,
        iconY       |-> Round(height - box.h - 2, 2),
        textX       |-> padding + box.w + iconPadding,
        textY       |-> Round(height + 8, 2) ]

\* the width table of calculateTextWidth, in thousandths of a pixel
charWidths ==
  "i" :> 4000 @@ "l" :> 4000 @@ "j" :> 4500 @@ "t" :> 5000 @@ "f" :> 5500 @@
  "r" :> 6000 @@ "a" :> 7000 @@ "c" :> 7000 @@ "e" :> 7000 @@ "n" :> 7500 @@
  "o" :> 7500 @@ "s" :> 7000 @@ "u" :> 7500 @@ "v" :> 7000 @@ "x" :> 7000 @@
  "z" :> 7000 @@ "b" :> 7500 @@ "d" :> 7500 @@ "g" :> 7500 @@ "h" :> 7500 @@
  "k" :> 7500 @@ "p" :> 7500 @@ "q" :> 7500 @@ "y" :> 7000 @@ "m" :> 11000 @@
  "w" :> 11000 @@ "0" :> 7500 @@ "1" :> 5000 @@ "2" :> 7500 @@ "3" :> 7500 @@
  "4" :> 7500 @@ "5" :> 7500 @@ "6" :> 7500 @@ "7" :> 7500 @@ "8" :> 7500 @@
  "9" :> 7500 @@ " " :> 4000 @@ "." :> 4000 @@ "," :> 4000 @@ ":" :> 4000 @@
  ";" :> 4000 @@ "!" :> 4500 @@ "?" :> 7500 @@ "-" :> 5000 @@ "_" :> 7500 @@
  "(" :> 5000 @@ ")" :> 5000 @@ "[" :> 5000 @@ "]" :> 5000 @@ "{" :> 5500 @@
  "}" :> 5500 @@ "/" :> 5500 @@ "\\" :> 5500 @@ "|" :> 4000 @@ "+" :> 8000 @@
  "=" :> 8000 @@ "<" :> 8000 @@ ">" :> 8000 @@ "@" :> 12000 @@ "#" :> 8500 @@
  "$" :> 7500 @@ "%" :> 12000 @@ "^" :> 7000 @@ "&" :> 9500 @@ "*" :> 6000 @@
  "~" :> 8000 @@ "`" :> 5000 @@ "'" :> 4000 @@ "\"" :> 6000

\* one character's width in thousandths: the table entry of its lower case,
\* times 1.1 for an upper-case letter, 8 for a character not in the table
charWidth(char) ==
  LET lowerChar == toLowerCaseChar(char)
  IN  IF lowerChar \in DOMAIN charWidths
        THEN IF char = toUpperCaseChar(char) /\ char # toLowerCaseChar(char)
               THEN (charWidths[lowerChar] * 11) \div 10
               ELSE charWidths[lowerChar]
        ELSE 8000

RECURSIVE sumCharWidths(_)
sumCharWidths(text) ==
  IF text = <<>> THEN 0 ELSE charWidth(Head(text)) + sumCharWidths(Tail(text))

\* calculateTextWidth(text, fontSize): the letter spacing is fontSize * 0.1
\* per gap, the total is multiplied by 1.2 and rounded up
calculateTextWidth(text, fontSize) ==
  LET totalWidth == sumCharWidths(text) + (Len(text) - 1) * (fontSize * 100)
  IN  Ceil(totalWidth * 12, 10000)

\* the template `rgb(${c.r}, ${c.g}, ${c.b})`: a value without r, g, b
\* properties prints each of them as undefined
formatRgb(c) ==
  IF "r" \in DOMAIN c
    THEN <<"r","g","b","(">> \o numberToString(c.r) \o <<",", " ">>
           \o numberToString(c.g) \o <<",", " ">> \o numberToString(c.b) \o <<")">>
    ELSE <<"r","g","b","(","u","n","d","e","f","i","n","e","d",","," ",
           "u","n","d","e","f","i","n","e","d",","," ",
           "u","n","d","e","f","i","n","e","d",")">>

\* the attributes written by the switch on edges.toLowerCase(); a switch
\* without a default leaves cornerRadius the empty string
cornerRadiusOf(edges, height) ==
  LET e == toLowerCase(edges)
  IN  IF e \in {<<"r","o","u","n","d","e","d">>, <<"r","o","u","n","d">>}
        THEN <<[name |-> "rx", value |-> 8], [name |-> "ry", value |-> 8]>>
      ELSE IF e \in {<<"s","q","u","a","r","e">>, <<"s","h","a","r","p">>,
                     <<"s","q","u","a","r","e","d">>}
        THEN <<[name |-> "rx", value |-> 0], [name |-> "ry", value |-> 0]>>
      ELSE IF e = <<"p","i","l","l">>
        THEN <<[name |-> "rx", value |-> height \div 2],
               [name |-> "ry", value |-> height \div 2]>>
      ELSE <<>>

\* the returned markup as a record of its elements: the root <svg>, the
\* background <rect>, the icon <image> (Null when iconData is null) and the
\* <text> (Null when text is null or undefined); edges.toLowerCase() throws a
\* TypeError when edges is not a string
generateBadgeSvg(text, bgColor, iconData, textColor, edges) ==
  LET bgColorFormatted == formatRgb(parseColor(bgColor))
      finalTextColor   == formatRgb(parseColor(textColor))
      dims             == calculateBadgeDimensions(iconData)
      fontSize         == 11
      textWidth ==
        IF Truthy(text)
          THEN (IF text.t = "string" THEN calculateTextWidth(text.s, fontSize) ELSE 0)
               + dims.iconPadding
          ELSE 0
      totalWidth == dims.padding + dims.iconWidth + dims.padding + textWidth
  IN  IF edges.t # "string" THEN [throw |-> "TypeError"]
      ELSE
        [ width  |-> totalWidth,
          height |-> dims.height,
          rect   |-> [ width |-> totalWidth, height |-> dims.height,
                       fill |-> bgColorFormatted,
                       cornerRadius |-> cornerRadiusOf(edges.s, dims.height) ],
          image  |-> IF iconData # Null
                       THEN [ href |-> iconData.dataUri, x |-> dims.iconX, y |-> dims.iconY,
                              width |-> dims.iconWidth, height |-> dims.iconHeight ]
                       ELSE Null,
          text   |-> IF text.t \notin {"null", "undefined"}
                       THEN [ x |-> dims.padding + dims.iconWidth + dims.iconPadding,
                              y |-> dims.height \div 2,
                              fill |-> finalTextColor,
                              content |-> text ]
                       ELSE Null ]

\* ------------------------------------------------------------------------
\* utils/colorUtils: changeSvgColor
\*
\* Markup is a sequence of nodes, in document order:
\*   [k |-> "tag", name, attrs, end]   an opening tag, end ">" or "/>"
\*   [k |-> "close", name]             a closing tag
\*   [k |-> "css", decls, multiline]   the text between <style> and </style>
\*   [k |-> "filter", id, rgb]         a <filter> definition
\* An attribute is [name, q, value] (q the quote character), the style
\* attribute [name, q, decls], and [slash |-> TRUE] is a "/" left inside a
\* tag.  A declaration is [prop, ws, value]: prop ":" ws value.
\* ------------------------------------------------------------------------

HasQuote(s) == \E i \in 1..Len(s) : s[i] \in {"\"", "'"}

\* the values the attribute passes return unchanged
isPreservedPaint(value) ==
  LET normalizedValue == toLowerCase(trim(value))
  IN  \/ normalizedValue = <<"n","o","n","e">>
      \/ normalizedValue = <<"t","r","a","n","s","p","a","r","e","n","t">>
      \/ StartsWith(normalizedValue, <<"u","r","l","(">>)
      \/ Includes(normalizedValue, <<"g","r","a","d","i","e","n","t">>)

\* /fill=(["'])([^"']*)\1/gi and /stroke=(["'])([^"']*)\1/gi on one attribute:
\* prop is "fill" or "stroke"
replacePaintAttr(attr, prop, finalColor) ==
  IF /\ "value" \in DOMAIN attr
     /\ EndsWith(toLowerCase(attr.name), prop)
     /\ ~HasQuote(attr.value)
     /\ ~isPreservedPaint(attr.value)
    THEN [attr EXCEPT !.name = SubSeq(attr.name, 1, Len(attr.name) - Len(prop)) \o prop,
                      !.value = finalColor]
    ELSE attr

\* /prop:\s*([^;}]+)/gi on one declaration, replaced by `prop: ${finalColor}`;
\* with keep, a preserved paint is returned unchanged
replaceDecl(decl, prop, finalColor, keep) ==
  IF /\ EndsWith(toLowerCase(decl.prop), prop)
     /\ decl.ws \o decl.value # <<>>
     /\ ~(keep /\ isPreservedPaint(decl.value))
    THEN [prop  |-> SubSeq(decl.prop, 1, Len(decl.prop) - Len(prop)) \o prop,
          ws    |-> <<" ">>,
          value |-> finalColor]
    ELSE decl

\* the <style> block pass: fill, stroke, color, stop-color, none of them
\* looking at the value; `.` does not match a line break
replaceStyleBlock(node, finalColor) ==
  IF node.k = "css" /\ ~node.multiline
    THEN [node EXCEPT !.decls =
           [i \in 1..Len(node.decls) |->
              replaceDecl(replaceDecl(replaceDecl(replaceDecl(node.decls[i],
                <<"f","i","l","l">>, finalColor, FALSE),
                <<"s","t","r","o","k","e">>, finalColor, FALSE),
                <<"c","o","l","o","r">>, finalColor, FALSE),
                <<"s","t","o","p","-","c","o","l","o","r">>, finalColor, FALSE)]]
    ELSE node

\* the style="..." pass: fill and stroke, keeping the preserved paints
replaceStyleAttr(attr, finalColor) ==
  IF /\ "decls" \in DOMAIN attr
     /\ EndsWith(toLowerCase(attr.name), <<"s","t","y","l","e">>)
     /\ \A i \in 1..Len(attr.decls) : ~HasQuote(attr.decls[i].value)
    THEN [attr EXCEPT
           !.name = SubSeq(attr.name, 1, Len(attr.name) - 5) \o <<"s","t","y","l","e">>,
           !.decls =
             [i \in 1..Len(attr.decls) |->
                replaceDecl(replaceDecl(attr.decls[i],
                  <<"f","i","l","l">>, finalColor, TRUE),
                  <<"s","t","r","o","k","e">>, finalColor, TRUE)]]
    ELSE attr

\* tag.includes('fill='): case-sensitive
tagIncludesFill(node) ==
  \E i \in 1..Len(node.attrs) :
    /\ "value" \in DOMAIN node.attrs[i]
    /\ EndsWith(node.attrs[i].name, <<"f","i","l","l">>)

\* new RegExp(`(<${element}[^>]*?)(>)`, 'gi'): a fill attribute is put before
\* the ">" of a tag that has none, after the "/" of a self-closing tag
addDefaultFill(node, element, finalColor) ==
  IF /\ node.k = "tag"
     /\ StartsWith(toLowerCase(node.name), element)
     /\ ~tagIncludesFill(node)
    THEN [node EXCEPT
           !.attrs = node.attrs
                       \o (IF node.end = "/>" THEN <<[slash |-> TRUE]>> ELSE <<>>)
                       \o <<[name |-> <<"f","i","l","l">>, q |-> "\"", value |-> finalColor]>>,
           !.end = ">"]
    ELSE node

DefaultFillElements ==
  << <<"p","a","t","h">>, <<"c","i","r","c","l","e">>, <<"r","e","c","t">>,
     <<"e","l","l","i","p","s","e">>, <<"p","o","l","y","g","o","n">>,
     <<"p","o","l","y","l","i","n","e">> >>

RECURSIVE addDefaultFills(_, _, _)
addDefaultFills(markup, i, finalColor) ==
  IF i > Len(DefaultFillElements) THEN markup
  ELSE addDefaultFills(
         [n \in 1..Len(markup) |-> addDefaultFill(markup[n], DefaultFillElements[i], finalColor)],
         i + 1, finalColor)

SubtleColorize ==
  <<"u","r","l","(","#","s","u","b","t","l","e","-","c","o","l","o","r","i","z","e",")">>

IsImageTag(node) == node.k = "tag" /\ StartsWith(node.name, <<"i","m","a","g","e">>)

IsBareDefs(node) ==
  node.k = "tag" /\ node.name = <<"d","e","f","s">> /\ node.attrs = <<>> /\ node.end = ">"

\* enhanced.replace('<defs>', `<defs>${subtleFilter}`): the first <defs> only
injectFilter(markup, rgb) ==
  IF \E i \in 1..Len(markup) : IsBareDefs(markup[i])
    THEN LET i == CHOOSE j \in 1..Len(markup) :
                    IsBareDefs(markup[j]) /\ \A k \in 1..(j - 1) : ~IsBareDefs(markup[k])
         IN  SubSeq(markup, 1, i)
               \o <<[k |-> "filter", id |-> <<"s","u","b","t","l","e","-","c","o","l","o","r","i","z","e">>,
                     rgb |-> rgb]>>
               \o SubSeq(markup, i + 1, Len(markup))
    ELSE markup

HasFilterAttr(node) ==
  \E i \in 1..Len(node.attrs) :
    "value" \in DOMAIN node.attrs[i] /\ EndsWith(node.attrs[i].name, <<"f","i","l","t","e","r">>)

\* match.replace(/filter="[^"]*"/, ...): the first double-quoted filter attribute
FirstDoubleQuotedFilter(node) ==
  { i \in 1..Len(node.attrs) :
      /\ "value" \in DOMAIN node.attrs[i]
      /\ EndsWith(node.attrs[i].name, <<"f","i","l","t","e","r">>)
      /\ node.attrs[i].q = "\""
      /\ ~Includes(node.attrs[i].value, <<"\"">>)
      /\ \A j \in 1..(i - 1) :
           ~( /\ "value" \in DOMAIN node.attrs[j]
              /\ EndsWith(node.attrs[j].name, <<"f","i","l","t","e","r">>)
              /\ node.attrs[j].q = "\"" ) }

\* /<image([^>]*?)\/>/g: the self-closing <image .../> tags
applyFilter(node) ==
  IF IsImageTag(node) /\ node.end = "/>"
    THEN IF HasFilterAttr(node)
           THEN [node EXCEPT !.attrs =
                  [i \in 1..Len(node.attrs) |->
                     IF i \in FirstDoubleQuotedFilter(node)
                       THEN [node.attrs[i] EXCEPT
                              !.name = SubSeq(@, 1, Len(@) - 6) \o <<"f","i","l","t","e","r">>,
                              !.value = SubtleColorize]
                       ELSE node.attrs[i]]]
           ELSE [node EXCEPT !.attrs =
                  node.attrs \o <<[name |-> <<"f","i","l","t","e","r">>, q |-> "\"",
                                   value |-> SubtleColorize]>>]
    ELSE node

\* one pass of an attribute pattern over every tag of the markup
replaceAttrs(markup, pass, finalColor) ==
  [n \in 1..Len(markup) |->
     IF markup[n].k = "tag"
       THEN [markup[n] EXCEPT !.attrs =
              [i \in 1..Len(@) |->
                 CASE pass = "fill"   -> replacePaintAttr(@[i], <<"f","i","l","l">>, finalColor)
                   [] pass = "stroke" -> replacePaintAttr(@[i], <<"s","t","r","o","k","e">>, finalColor)
                   [] pass = "style"  -> replaceStyleAttr(@[i], finalColor)]]
       ELSE markup[n]]

changeSvgColor(svgString, targetColor) ==
  LET rgb        == parseColor(targetColor)
      finalColor == formatRgb(rgb)
      fills      == replaceAttrs(svgString, "fill", finalColor)
      strokes    == replaceAttrs(fills, "stroke", finalColor)
      blocks     == [n \in 1..Len(strokes) |-> replaceStyleBlock(strokes[n], finalColor)]
      styles     == replaceAttrs(blocks, "style", finalColor)
      filtered   == injectFilter(svgString, rgb)
  IN  IF \E i \in 1..Len(svgString) : IsImageTag(svgString[i])
        THEN [n \in 1..Len(filtered) |-> applyFilter(filtered[n])]
        ELSE addDefaultFills(styles, 1, finalColor)

\* ------------------------------------------------------------------------
\* utils/constants.js: ICON_PROVIDERS
\* ------------------------------------------------------------------------

ICON_PROVIDERS ==
    <<"f","o","n","t","a","w","e","s","o","m","e","-","s","o","l","i","d">> :>
      Str(<<"h","t","t","p","s",":","/","/","u","n","p","k","g",".","c","o","m","/","@","f",
          "o","r","t","a","w","e","s","o","m","e","/","f","o","n","t","a","w","e","s","o",
          "m","e","-","f","r","e","e","@","6",".","5",".","1","/","s","v","g","s","/","s",
          "o","l","i","d","/","{","i","c","o","n","}",".","s","v","g">>) @@
    <<"f","o","n","t","a","w","e","s","o","m","e","-","r","e","g","u","l","a","r">> :>
      Str(<<"h","t","t","p","s",":","/","/","u","n","p","k","g",".","c","o","m","/","@","f",
          "o","r","t","a","w","e","s","o","m","e","/","f","o","n","t","a","w","e","s","o",
          "m","e","-","f","r","e","e","@","6",".","5",".","1","/","s","v","g","s","/","r",
          "e","g","u","l","a","r","/","{","i","c","o","n","}",".","s","v","g">>) @@
    <<"f","o","n","t","a","w","e","s","o","m","e","-","b","r","a","n","d","s">> :>
      Str(<<"h","t","t","p","s",":","/","/","u","n","p","k","g",".","c","o","m","/","@","f",
          "o","r","t","a","w","e","s","o","m","e","/","f","o","n","t","a","w","e","s","o",
          "m","e","-","f","r","e","e","@","6",".","5",".","1","/","s","v","g","s","/","b",
          "r","a","n","d","s","/","{","i","c","o","n","}",".","s","v","g">>) @@
    <<"b","o","o","t","s","t","r","a","p">> :>
      Str(<<"h","t","t","p","s",":","/","/","c","d","n",".","j","s","d","e","l","i","v","r",
          ".","n","e","t","/","n","p","m","/","b","o","o","t","s","t","r","a","p","-","i",
          "c","o","n","s","@","1",".","1","1",".","1","/","i","c","o","n","s","/","{","i",
          "c","o","n","}",".","s","v","g">>) @@
    <<"h","e","r","o","i","c","o","n","s","-","o","u","t","l","i","n","e">> :>
      Str(<<"h","t","t","p","s",":","/","/","u","n","p","k","g",".","c","o","m","/","h","e",
          "r","o","i","c","o","n","s","@","2",".","0",".","1","8","/","2","4","/","o","u",
          "t","l","i","n","e","/","{","i","c","o","n","}",".","s","v","g">>) @@
    <<"h","e","r","o","i","c","o","n","s","-","s","o","l","i","d">> :>
      Str(<<"h","t","t","p","s",":","/","/","u","n","p","k","g",".","c","o","m","/","h","e",
          "r","o","i","c","o","n","s","@","2",".","0",".","1","8","/","2","4","/","s","o",
          "l","i","d","/","{","i","c","o","n","}",".","s","v","g">>) @@
    <<"l","u","c","i","d","e">> :>
      Str(<<"h","t","t","p","s",":","/","/","u","n","p","k","g",".","c","o","m","/","l","u",
          "c","i","d","e","-","s","t","a","t","i","c","@","l","a","t","e","s","t","/","i",
          "c","o","n","s","/","{","i","c","o","n","}",".","s","v","g">>) @@
    <<"t","a","b","l","e","r">> :>
      Str(<<"h","t","t","p","s",":","/","/","u","n","p","k","g",".","c","o","m","/","@","t",
          "a","b","l","e","r","/","i","c","o","n","s","@","l","a","t","e","s","t","/","i",
          "c","o","n","s","/","{","i","c","o","n","}",".","s","v","g">>) @@
    <<"s","i","m","p","l","e","-","i","c","o","n","s">> :>
      Str(<<"h","t","t","p","s",":","/","/","c","d","n",".","j","s","d","e","l","i","v","r",
          ".","n","e","t","/","n","p","m","/","s","i","m","p","l","e","-","i","c","o","n",
          "s","@","v","1","0","/","i","c","o","n","s","/","{","i","c","o","n","}",".","s",
          "v","g">>)

\* ------------------------------------------------------------------------
\* utils/iconUtils.js: resolveIconUrl
\* ------------------------------------------------------------------------

Throw(name) == [throw |-> name]

IsThrow(v) == "throw" \in DOMAIN v

RECURSIVE getSubstitution(_, _, _, _)
\* the replacement string of String.prototype.replace: $$ is "$", $& the
\* matched text, $` the text before the match, $' the text after it
getSubstitution(replacement, matched, before, after) ==
  IF replacement = <<>> THEN <<>>
  ELSE IF Head(replacement) = "$" /\ Len(replacement) >= 2
         /\ replacement[2] \in {"$", "&", "`", "'"}
    THEN (CASE replacement[2] = "$" -> <<"$">>
            [] replacement[2] = "&" -> matched
            [] replacement[2] = "`" -> before
            [] replacement[2] = "'" -> after)
         \o getSubstitution(SubSeq(replacement, 3, Len(replacement)), matched, before, after)
  ELSE <<Head(replacement)>> \o getSubstitution(Tail(replacement), matched, before, after)

\* template.replace('{icon}', iconName): the first occurrence only
replaceIcon(template, iconName) ==
  LET pattern == <<"{","i","c","o","n","}">>
  IN  IF ~Includes(template, pattern) THEN template
      ELSE LET i      == CHOOSE j \in 1..Len(template) :
                           /\ SubSeq(template, j, j + 5) = pattern
                           /\ \A k \in 1..(j - 1) : SubSeq(template, k, k + 5) # pattern
               before == SubSeq(template, 1, i - 1)
               after  == SubSeq(template, i + 6, Len(template))
           IN  before \o getSubstitution(iconName, pattern, before, after) \o after

\* the resolved URL, or the TypeError of template.replace when the property
\* read found a truthy value that is not a string
resolveIconUrl(iconParam) ==
  LET colonIndex == indexOf(iconParam, ":")
      provider   == SubSeq(iconParam, 1, colonIndex)
      iconName   == SubSeq(iconParam, colonIndex + 2, Len(iconParam))
      template   == GetProperty(ICON_PROVIDERS, provider)
  IN  IF colonIndex > 0 /\ Truthy(template)
        THEN IF template.t = "string"
               THEN Str(replaceIcon(template.s, iconName))
               ELSE Throw("TypeError")
        ELSE Str(iconParam)

\* ------------------------------------------------------------------------
\* utils/iconUtils.js: isValidImageBuffer, isSvgBuffer.  A buffer is a
\* sequence of bytes: a printable ASCII byte is its character, any other
\* byte is named by its hex code.
\* ------------------------------------------------------------------------

PngSignature == <<"0x89", "P", "N", "G", "\r", "\n", "0x1A", "\n">>

JpegSignature == <<"0xFF", "0xD8", "0xFF">>

Gif87aSignature == <<"G", "I", "F", "8", "7", "a">>

Gif89aSignature == <<"G", "I", "F", "8", "9", "a">>

WebpSignature == <<"R", "I", "F", "F">>

RasterSignatures ==
  {PngSignature, JpegSignature, Gif87aSignature, Gif89aSignature, WebpSignature}

\* buffer.toString('utf8', 0, Math.min(n, buffer.length)): a byte that is
\* not ASCII decodes to the replacement character
toStringUtf8(buffer, n) ==
  [i \in 1..Min(n, Len(buffer)) |->
     IF buffer[i] \in {"0x89", "0xFF", "0xD8"} THEN "U+FFFD" ELSE buffer[i]]

\* signature.every((byte, index) => buffer[index] === byte)
hasSignature(buffer, signature) ==
  \A index \in 1..Len(signature) : index <= Len(buffer) /\ buffer[index] = signature[index]

\* isValidImageBuffer with the signature test moved before the marker test
SignatureBeforeMarkers(buffer) ==
  IF Len(buffer) = 0 THEN FALSE
  ELSE LET start == toStringUtf8(buffer, 200)
       IN  IF \E signature \in RasterSignatures : hasSignature(buffer, signature)
             THEN TRUE
           ELSE IF \/ Includes(start, <<"<","h","t","m","l">>)
                   \/ Includes(start, <<"<","!","D","O","C","T","Y","P","E">>)
                   \/ Includes(start, <<"E","r","r","o","r">>)
                   \/ Includes(start, <<"<","b","o","d","y">>)
             THEN FALSE
           ELSE \/ Includes(start, <<"<","s","v","g">>)
                \/ Includes(start, <<"<","?","x","m","l">>)

isValidImageBuffer(buffer) ==
  IF Len(buffer) = 0 THEN FALSE
  ELSE LET start == toStringUtf8(buffer, 200)
       IN  IF \/ Includes(start, <<"<","h","t","m","l">>)
              \/ Includes(start, <<"<","!","D","O","C","T","Y","P","E">>)
              \/ Includes(start, <<"E","r","r","o","r">>)
              \/ Includes(start, <<"<","b","o","d","y">>)
             THEN FALSE
           ELSE IF \E signature \in RasterSignatures : hasSignature(buffer, signature)
             THEN TRUE
           ELSE \/ Includes(start, <<"<","s","v","g">>)
                \/ Includes(start, <<"<","?","x","m","l">>)

isSvgBuffer(buffer) ==
  IF Len(buffer) = 0 THEN FALSE
  ELSE LET normalized == trim(toLowerCase(toStringUtf8(buffer, 300)))
       IN  \/ Includes(normalized, <<"<","s","v","g">>)
           \/ /\ Includes(normalized, <<"<","?","x","m","l">>)
              /\ \/ Includes(normalized, <<"<","s","v","g">>)
                 \/ Includes(normalized, <<"s","v","g">>)
           \/ /\ StartsWith(normalized, <<"<","?","x","m","l">>)
              /\ Includes(normalized, <<"s","v","g">>)

\* ------------------------------------------------------------------------
\* utils/iconUtils.js: processSvgImage
\* ------------------------------------------------------------------------

NaN == [nan |-> TRUE]

Num(n) == [nan |-> FALSE, n |-> n]

RECURSIVE parseDigits(_, _)
\* the value of the leading decimal digits of s, acc the value read so far
parseDigits(s, acc) ==
  IF s # <<>> /\ \E d \in 1..10 : DecimalDigits[d] = Head(s)
    THEN parseDigits(Tail(s), 10 * acc + (CHOOSE d \in 1..10 : DecimalDigits[d] = Head(s)) - 1)
    ELSE acc

\* parseFloat and parseInt on an integer literal: leading white space and a
\* sign are accepted, what follows the digits is ignored, no digit is NaN
parseNumber(str) ==
  LET s        == trimStart(str)
      negative == s # <<>> /\ Head(s) = "-"
      digits   == IF s # <<>> /\ Head(s) \in {"-", "+"} THEN Tail(s) ELSE s
  IN  IF digits = <<>> \/ ~\E d \in 1..10 : DecimalDigits[d] = Head(digits)
        THEN NaN
        ELSE Num(IF negative THEN 0 - parseDigits(digits, 0) ELSE parseDigits(digits, 0))

\* parseFloat(x) || fallback: NaN and 0 are falsy
orElse(v, fallback) == IF v.nan \/ v.n = 0 THEN fallback ELSE v.n

RECURSIVE splitWhitespace(_)
\* String.prototype.split(/\s+/)
splitWhitespace(s) ==
  IF \E i \in 1..Len(s) : s[i] \in Whitespace
    THEN LET i == CHOOSE k \in 1..Len(s) :
                    s[k] \in Whitespace /\ \A j \in 1..(k - 1) : s[j] \notin Whitespace
             rest == trimStart(SubSeq(s, i, Len(s)))
         IN  <<SubSeq(s, 1, i - 1)>> \o splitWhitespace(rest)
    ELSE <<s>>

RECURSIVE AllAttrs(_)
\* the attributes of a document in text order
AllAttrs(markup) ==
  IF markup = <<>> THEN <<>>
  ELSE (IF Head(markup).k = "tag" THEN Head(markup).attrs ELSE <<>>) \o AllAttrs(Tail(markup))

\* svg.match(/name=["']([^"']+)["']/): the first attribute, anywhere in the
\* document, whose name ends in `name`; <<>> when there is none
matchAttr(markup, name) ==
  LET found == SelectSeq(AllAttrs(markup),
                 LAMBDA a : /\ "value" \in DOMAIN a
                            /\ EndsWith(a.name, name)
                            /\ a.value # <<>>
                            /\ ~HasQuote(a.value))
  IN  IF found = <<>> THEN <<>> ELSE <<Head(found).value>>

\* the intrinsic size: the viewBox, else width and height, else 24 x 24
svgDimensions(svg) ==
  LET viewBox == matchAttr(svg, <<"v","i","e","w","B","o","x">>)
      width   == matchAttr(svg, <<"w","i","d","t","h">>)
      height  == matchAttr(svg, <<"h","e","i","g","h","t">>)
      parts   == splitWhitespace(viewBox[1])
      parsed  ==
        IF viewBox # <<>>
          THEN IF Len(parts) >= 4
                 THEN [ viewBoxX       |-> orElse(parseNumber(parts[1]), 0),
                        viewBoxY       |-> orElse(parseNumber(parts[2]), 0),
                        originalWidth  |-> orElse(parseNumber(parts[3]), 24),
                        originalHeight |-> orElse(parseNumber(parts[4]), 24) ]
                 ELSE [viewBoxX |-> 0, viewBoxY |-> 0, originalWidth |-> 24, originalHeight |-> 24]
          ELSE [ viewBoxX       |-> 0,
                 viewBoxY       |-> 0,
                 originalWidth  |-> IF width # <<>> THEN orElse(parseNumber(width[1]), 24) ELSE 24,
                 originalHeight |-> IF height # <<>> THEN orElse(parseNumber(height[1]), 24) ELSE 24 ]
  IN  [parsed EXCEPT
        !.originalWidth  = IF @ <= 0 THEN 24 ELSE @,
        !.originalHeight = IF @ <= 0 THEN 24 ELSE @]

Attr(name, value) == [name |-> name, q |-> "\"", value |-> value]

\* the attributes the root tag is given
qualityAttrs(targetWidth, targetHeight, d) ==
  << Attr(<<"s","h","a","p","e","-","r","e","n","d","e","r","i","n","g">>,
          <<"g","e","o","m","e","t","r","i","c","P","r","e","c","i","s","i","o","n">>),
     Attr(<<"t","e","x","t","-","r","e","n","d","e","r","i","n","g">>,
          <<"o","p","t","i","m","i","z","e","L","e","g","i","b","i","l","i","t","y">>),
     Attr(<<"i","m","a","g","e","-","r","e","n","d","e","r","i","n","g">>,
          <<"o","p","t","i","m","i","z","e","Q","u","a","l","i","t","y">>),
     Attr(<<"c","o","l","o","r","-","r","e","n","d","e","r","i","n","g">>,
          <<"o","p","t","i","m","i","z","e","Q","u","a","l","i","t","y">>),
     Attr(<<"w","i","d","t","h">>, numberToString(targetWidth)),
     Attr(<<"h","e","i","g","h","t">>, numberToString(targetHeight)),
     Attr(<<"v","i","e","w","B","o","x">>,
          numberToString(d.viewBoxX) \o <<" ">> \o numberToString(d.viewBoxY) \o <<" ">>
            \o numberToString(d.originalWidth) \o <<" ">> \o numberToString(d.originalHeight)),
     Attr(<<"x","m","l","n","s">>,
          <<"h","t","t","p",":","/","/","w","w","w",".","w","3",".","o","r","g","/",
            "2","0","0","0","/","s","v","g">>) >>

\* what /\s*xmlns[^=]*="[^"]*"/g and then /\s*(width|height|viewBox)="[^"]*"/gi
\* leave of one root attribute: <<>> when it is removed, the text before the
\* match when the match starts inside the name
stripRootAttr(attr) ==
  LET doubleQuoted == "value" \in DOMAIN attr /\ attr.q = "\"" /\ ~Includes(attr.value, <<"\"">>)
      lower        == toLowerCase(attr.name)
      sized        == { n \in {<<"w","i","d","t","h">>, <<"h","e","i","g","h","t">>,
                               <<"v","i","e","w","b","o","x">>} : EndsWith(lower, n) }
      suffix       == CHOOSE n \in sized : TRUE
  IN  IF doubleQuoted /\ StartsWith(attr.name, <<"x","m","l","n","s">>) THEN <<>>
      ELSE IF doubleQuoted /\ sized # {}
        THEN IF Len(attr.name) = Len(suffix) THEN <<>>
             ELSE <<[bare |-> SubSeq(attr.name, 1, Len(attr.name) - Len(suffix))]>>
      ELSE <<attr>>

RECURSIVE stripRootAttrs(_)
stripRootAttrs(attrs) ==
  IF attrs = <<>> THEN <<>> ELSE stripRootAttr(Head(attrs)) \o stripRootAttrs(Tail(attrs))

IsSvgTag(node) == node.k = "tag" /\ StartsWith(toLowerCase(node.name), <<"s","v","g">>)

\* svg.replace(/<svg[^>]*>/i, ...): the first <svg ...> tag is rebuilt
rewriteRoot(svg, targetWidth, targetHeight, d) ==
  IF \E i \in 1..Len(svg) : IsSvgTag(svg[i])
    THEN LET i == CHOOSE j \in 1..Len(svg) :
                    IsSvgTag(svg[j]) /\ \A k \in 1..(j - 1) : ~IsSvgTag(svg[k])
         IN  [svg EXCEPT ![i] =
               [ k     |-> "tag",
                 name  |-> <<"s","v","g">> \o SubSeq(svg[i].name, 4, Len(svg[i].name)),
                 attrs |-> stripRootAttrs(svg[i].attrs)
                             \o (IF svg[i].end = "/>" THEN <<[slash |-> TRUE]>> ELSE <<>>)
                             \o qualityAttrs(targetWidth, targetHeight, d),
                 end   |-> ">" ]]
    ELSE svg

\* processSvgImage after DOMPurify returned the string `sanitized` (or threw): the
\* target height is 16, the width follows the aspect ratio
processSvgImage(sanitized) ==
  IF IsThrow(sanitized) THEN Null
  ELSE LET svg          == sanitized.nodes
           d            == svgDimensions(svg)
           targetHeight == 16
           targetWidth  == Round(targetHeight * d.originalWidth, d.originalHeight)
       IN  [ svgString |-> rewriteRoot(svg, targetWidth, targetHeight, d),
             width     |-> targetWidth,
             height    |-> targetHeight ]

\* ------------------------------------------------------------------------
\* utils/iconUtils.js: processPixelImage
\* ------------------------------------------------------------------------

Tag(name, attrs, end) == [k |-> "tag", name |-> name, attrs |-> attrs, end |-> end]

Close(name) == [k |-> "close", name |-> name]

\* what potrace.trace resolves with: a root with the traced bitmap's size and
\* one black path
tracedSvg ==
  << Tag(<<"s","v","g">>,
         << Attr(<<"x","m","l","n","s">>, <<"h","t","t","p",":","/","/","w","w","w",".","w","3",
                     ".","o","r","g","/","2","0","0","0","/","s","v","g">>),
            Attr(<<"w","i","d","t","h">>, <<"5","1","2">>),
            Attr(<<"h","e","i","g","h","t">>, <<"5","1","2">>),
            Attr(<<"v","i","e","w","B","o","x">>, <<"0"," ","0"," ","5","1","2"," ","5","1","2">>) >>,
         ">"),
     Tag(<<"p","a","t","h">>,
         << Attr(<<"d">>, <<"M","0"," ","0">>),
            Attr(<<"s","t","r","o","k","e">>, <<"n","o","n","e">>),
            Attr(<<"f","i","l","l">>, <<"b","l","a","c","k">>),
            Attr(<<"f","i","l","l","-","r","u","l","e">>, <<"e","v","e","n","o","d","d">>) >>,
         "/>"),
     Close(<<"s","v","g">>) >>

\* /<svg([^>]*)width="[^"]*"([^>]*)height="[^"]*"([^>]*)>/: the root's width
\* and height become the display size
scaleTraced(svg, finalWidth, finalHeight) ==
  [n \in 1..Len(svg) |->
     IF IsSvgTag(svg[n]) /\ svg[n].name = <<"s","v","g">>
       THEN [svg[n] EXCEPT !.attrs =
              [i \in 1..Len(@) |->
                 IF @[i].name = <<"w","i","d","t","h">>
                   THEN [@[i] EXCEPT !.value = numberToString(finalWidth)]
                 ELSE IF @[i].name = <<"h","e","i","g","h","t">>
                   THEN [@[i] EXCEPT !.value = numberToString(finalHeight)]
                 ELSE @[i]]]
       ELSE svg[n]]

\* the envelope around the resampled PNG when no colour is asked for: the
\* elements and the attributes computed from the size
rasterEnvelope(finalWidth, finalHeight) ==
  << Tag(<<"s","v","g">>,
         << Attr(<<"w","i","d","t","h">>, numberToString(finalWidth)),
            Attr(<<"h","e","i","g","h","t">>, numberToString(finalHeight)),
            Attr(<<"v","i","e","w","B","o","x">>,
                 <<"0"," ","0"," ">> \o numberToString(finalWidth) \o <<" ">>
                   \o numberToString(finalHeight)) >>,
         ">"),
     Tag(<<"d","e","f","s">>, <<>>, ">"),
     [k |-> "filter", id |-> <<"i","c","o","n","-","e","n","h","a","n","c","e">>, rgb |-> Null],
     Close(<<"d","e","f","s">>),
     Tag(<<"i","m","a","g","e">>,
         << Attr(<<"h","r","e","f">>, <<"d","a","t","a",":","i","m","a","g","e","/","p","n","g">>),
            Attr(<<"w","i","d","t","h">>, numberToString(finalWidth)),
            Attr(<<"h","e","i","g","h","t">>, numberToString(finalHeight)),
            Attr(<<"f","i","l","t","e","r">>,
                 <<"u","r","l","(","#","i","c","o","n","-","e","n","h","a","n","c","e",")">>) >>,
         "/>"),
     Close(<<"s","v","g">>) >>

\* processPixelImage: sharp is what the decoder answers, [metadata |-> a size
\* or a throw, resize |-> "ok" or "throw", trace |-> "ok" or "throw"]
processPixelImage(buffer, iconColor, sharp) ==
  IF ~isValidImageBuffer(buffer) THEN Null
  ELSE IF IsThrow(sharp.metadata) \/ sharp.resize = "throw" THEN Null
  ELSE LET displayHeight == 16
           displayWidth  == Round(displayHeight * sharp.metadata.width, sharp.metadata.height)
       IN  IF Truthy(iconColor)
             THEN IF sharp.trace = "throw" THEN Null
                  ELSE [ svgString |-> scaleTraced(tracedSvg, displayWidth, displayHeight),
                         width |-> displayWidth, height |-> displayHeight ]
             ELSE [ svgString |-> rasterEnvelope(displayWidth, displayHeight),
                    width |-> displayWidth, height |-> displayHeight ]

\* ------------------------------------------------------------------------
\* utils/iconUtils.js: generateIcon, after the processor returned `result`
\* ------------------------------------------------------------------------

finishIcon(result, iconColor) ==
  IF result = Null THEN Null
  ELSE [ dataUri |-> [ mime   |-> "image/svg+xml",
                       base64 |-> IF Truthy(iconColor)
                                    THEN changeSvgColor(result.svgString, iconColor)
                                    ELSE result.svgString ],
         width   |-> result.width,
         height  |-> result.height ]

\* ------------------------------------------------------------------------
\* The four specifications share the variables; each leaves the variables of
\* the others at Pending.
\* ------------------------------------------------------------------------

IdleColor == colorArg = Pending /\ colorRet = Pending

IdleLayout == badgeArgs = Pending /\ badgeDims = Pending /\ badgeSvg = Pending

IdleRecolor == svgArg = Pending /\ targetArg = Pending /\ svgRet = Pending

IdleClassify == bufferArg = Pending /\ validRet = Pending

IdleRoute ==
  /\ pc = "off"
  /\ req = Pending
  /\ url = Pending
  /\ gets = <<>>
  /\ fetched = Pending
  /\ logoCache = Pending
  /\ logoCalls = Pending
  /\ storageFiles = Pending
  /\ memoryRepos = Pending
  /\ redisViews = Pending
  /\ memoryViews = Pending
  /\ viewCalls = Pending
  /\ sharpMetadata = Pending
  /\ sanitizedSvg = Pending
  /\ handed = {}
  /\ processed = Pending
  /\ iconResult = Pending
  /\ res = Pending
  /\ dynamicValue = Pending
  /\ generated = Pending

\* ------------------------------------------------------------------------
\* SpecColor: one call of parseColor on an argument from ColorInputs
\* ------------------------------------------------------------------------

MaxColorLen == 7

ColorAlphabet == {"#", "F", "f", "0"}

SeqsUpTo(A, n) == UNION {[1..k -> A] : k \in 0..n}

RECURSIVE Spellings(_)
\* every upper/lower-case spelling of a name
Spellings(s) ==
  IF s = <<>> THEN {<<>>}
  ELSE {<<c>> \o t : c \in {toLowerCaseChar(Head(s)), toUpperCaseChar(Head(s))},
                     t \in Spellings(Tail(s))}

UnknownNames ==
  { <<"n","o","t","a","c","o","l","o","r">>,
    <<"r","e","d"," ">>,
    <<"t","o","s","t","r","i","n","g">>,
    <<"F","F","0","0","0","G">>,
    <<"1","2","3","4","5","6">>,
    <<"a","B","c","D","e","9">> }

ColorInputs ==
  NonStrings
    \cup {Str(s) : s \in SeqsUpTo(ColorAlphabet, MaxColorLen)}
    \cup {Str(s) : s \in UNION {Spellings(k) : k \in DOMAIN COLORS}}
    \cup {Str(s) : s \in ObjectPrototypeKeys \cup UnknownNames}

InitColor ==
  /\ colorArg \in ColorInputs
  /\ colorRet = Pending
  /\ IdleLayout /\ IdleRecolor /\ IdleRoute /\ IdleClassify

ParseColor ==
  /\ colorArg # Pending
  /\ colorRet = Pending
  /\ colorRet' = parseColor(colorArg)
  /\ UNCHANGED <<colorArg, layoutVars, recolorVars, routeVars, classifyVars>>

NextColor == ParseColor

SpecColor == InitColor /\ [][NextColor]_vars

\* ------------------------------------------------------------------------
\* SpecLayout: one call of generateBadgeSvg
\* ------------------------------------------------------------------------

MaxIconDim == 40

EmptyDataUri == [mime |-> "image/svg+xml", base64 |-> <<>>]

IconOf(w, h) == [dataUri |-> EmptyDataUri, width |-> w, height |-> h]

EdgeInputs ==
  { Str(<<"r","o","u","n","d","e","d">>), Str(<<"r","o","u","n","d">>),
    Str(<<"R","O","U","N","D","E","D">>), Str(<<"R","o","u","n","d">>),
    Str(<<"s","q","u","a","r","e">>), Str(<<"s","h","a","r","p">>),
    Str(<<"s","q","u","a","r","e","d">>), Str(<<"S","Q","U","A","R","E">>),
    Str(<<"p","i","l","l">>), Str(<<"P","i","l","l">>),
    Str(<<"c","u","r","v","e","d">>), Str(<<"r","o","u","n","d","e","d"," ">>),
    Str(<<"f","l","a","t">>), Str(<<>>), [t |-> "array"] }

TextInputs == {Undefined, Null, Str(<<>>), Str(<<"H","i">>), Str(<<"a","<","b">>)}

LayoutInputs ==
  { [ text |-> Str(<<"H","i">>), bgColor |-> Str(<<"b","l","u","e">>), iconData |-> i,
      textColor |-> Str(<<"w","h","i","t","e">>), edges |-> Str(<<"s","q","u","a","r","e","d">>) ] :
      i \in {IconOf(w, h) : w \in 1..MaxIconDim, h \in 1..MaxIconDim} }
  \cup
  [ text      : TextInputs,
    bgColor   : {Str(<<"g","r","e","e","n">>), Str(<<"F","F","0","0","0","0">>),
                 Str(<<"c","o","n","s","t","r","u","c","t","o","r">>)},
    iconData  : {Null, IconOf(16, 16)},
    textColor : {Str(<<"w","h","i","t","e">>), Undefined},
    edges     : EdgeInputs ]

InitLayout ==
  /\ badgeArgs \in LayoutInputs
  /\ badgeDims = Pending
  /\ badgeSvg = Pending
  /\ IdleColor /\ IdleRecolor /\ IdleRoute /\ IdleClassify

GenerateBadgeSvg ==
  /\ badgeArgs # Pending
  /\ badgeSvg = Pending
  /\ badgeDims' = calculateBadgeDimensions(badgeArgs.iconData)
  /\ badgeSvg' = generateBadgeSvg(badgeArgs.text, badgeArgs.bgColor, badgeArgs.iconData,
                                  badgeArgs.textColor, badgeArgs.edges)
  /\ UNCHANGED <<badgeArgs, colorVars, recolorVars, routeVars, classifyVars>>

NextLayout == GenerateBadgeSvg

SpecLayout == InitLayout /\ [][NextLayout]_vars

\* ------------------------------------------------------------------------
\* SpecRecolor: one call of changeSvgColor
\* ------------------------------------------------------------------------

MaxAttrs == 2

PaintValues ==
  { <<"n","o","n","e">>, <<" ","N","O","N","E"," ">>,
    <<"t","r","a","n","s","p","a","r","e","n","t">>,
    <<"c","u","r","r","e","n","t","C","o","l","o","r">>,
    <<"u","r","l","(","#","g","r","a","d","1",")">>,
    <<"l","i","n","e","a","r","-","g","r","a","d","i","e","n","t">>,
    <<"#","0","0","0","0","0","0">>,
    <<"r","e","d">> }

Decl(prop, value) == [prop |-> prop, ws |-> <<" ">>, value |-> value]

StyleAttr(decls) == [name |-> <<"s","t","y","l","e">>, q |-> "\"", decls |-> decls]

PaintAttrs ==
  {Attr(<<"f","i","l","l">>, v) : v \in PaintValues}
    \cup {Attr(<<"s","t","r","o","k","e">>, v) :
            v \in {<<"n","o","n","e">>, <<"c","u","r","r","e","n","t","C","o","l","o","r">>,
                   <<"U","R","L","(","#","g",")">>, <<"#","0","0","0","0","0","0">>}}
    \cup { [name |-> <<"f","i","l","l">>, q |-> "'", value |-> <<"n","o","n","e">>],
           [name |-> <<"F","I","L","L">>, q |-> "\"", value |-> <<"#","0","0","0","0","0","0">>],
           Attr(<<"d">>, <<"M","0"," ","0">>),
           StyleAttr(<<Decl(<<"f","i","l","l">>, <<"n","o","n","e">>),
                       Decl(<<"s","t","r","o","k","e">>, <<"r","e","d">>)>>) }

StyleBlocks ==
  { << Tag(<<"s","t","y","l","e">>, <<>>, ">"),
       [k |-> "css", multiline |-> m, decls |-> <<Decl(p, v)>>],
       Close(<<"s","t","y","l","e">>) >> :
      m \in BOOLEAN,
      p \in {<<"f","i","l","l">>, <<"s","t","r","o","k","e">>, <<"s","t","o","p","-","c","o","l","o","r">>},
      v \in {<<"n","o","n","e">>, <<"r","e","d">>, <<"u","r","l","(","#","g","r","a","d","1",")">>} }

ImageDocs ==
  { defs \o <<Tag(<<"i","m","a","g","e">>, attrs, end)>> \o closing :
      defs \in {<<>>, <<Tag(<<"d","e","f","s">>, <<>>, ">"), Close(<<"d","e","f","s">>)>>},
      attrs \in { <<Attr(<<"h","r","e","f">>, <<"d","a","t","a",":","x">>)>>,
                  <<Attr(<<"f","i","l","t","e","r">>, <<"u","r","l","(","#","o","l","d",")">>)>>,
                  <<[name |-> <<"f","i","l","t","e","r">>, q |-> "'",
                     value |-> <<"u","r","l","(","#","o","l","d",")">>]>> },
      end \in {">", "/>"},
      closing \in {<<>>, <<Close(<<"i","m","a","g","e">>)>>} }

VectorDocs ==
  { <<Tag(name, attrs, end)>> :
      name \in {<<"p","a","t","h">>, <<"g">>},
      attrs \in SeqsUpTo(PaintAttrs, MaxAttrs),
      end \in {">", "/>"} }

TargetColors ==
  {Str(<<"r","e","d">>), Str(<<"F","F","0","0","0","0">>), Str(<<>>), Undefined, Null}

InitRecolor ==
  /\ svgArg \in {[t |-> "string", nodes |-> d] : d \in VectorDocs \cup StyleBlocks \cup ImageDocs}
  /\ targetArg \in TargetColors
  /\ svgRet = Pending
  /\ IdleColor /\ IdleLayout /\ IdleRoute /\ IdleClassify

ChangeSvgColor ==
  /\ svgArg # Pending
  /\ svgRet = Pending
  /\ svgRet' = [t |-> "string", nodes |-> changeSvgColor(svgArg.nodes, targetArg)]
  /\ UNCHANGED <<svgArg, targetArg, colorVars, layoutVars, routeVars, classifyVars>>

NextRecolor == ChangeSvgColor

SpecRecolor == InitRecolor /\ [][NextRecolor]_vars

\* ------------------------------------------------------------------------
\* Spec: one GET /badge request, from the query to the response
\* ------------------------------------------------------------------------

MaxPieces == 2

IconPrefixes ==
  { <<"l","u","c","i","d","e">>, <<"s","i","m","p","l","e","-","i","c","o","n","s">>, <<"b","o","o","t","s","t","r","a","p">>, <<"L","u","c","i","d","e">>, <<"u","n","k","n","o","w","n">>,
    <<"c","o","n","s","t","r","u","c","t","o","r">>, <<"t","o","S","t","r","i","n","g">>, <<"_","_","p","r","o","t","o","_","_">> }

IconRefs ==
  {p \o <<":","x">> : p \in IconPrefixes}
    \cup { <<"l","u","c","i","d","e",":","$","&">>, <<"l","u","c","i","d","e",":","a",":","b">>, <<"l","u","c","i","d","e">>, <<":","x">>, <<"l","u","c","i","d","e",":">>,
           <<"h","t","t","p","s",":","/","/","h","/","i",".","p","n","g">>, <<"h","t","t","p",":","/","/","h","/","{","i","c","o","n","}">> }

Query(text, icon, bgColor, iconColor, textColor, edges, v, cacheSeconds) ==
  [ text |-> text, icon |-> icon, bgColor |-> bgColor, iconColor |-> iconColor,
    textColor |-> textColor, edges |-> edges, v |-> v, cacheSeconds |-> cacheSeconds ]

Queries ==
  { Query(Str(<<"H","i">>), Str(i), Undefined, c, Undefined, Undefined, Undefined, Undefined) :
      i \in IconRefs, c \in {Undefined, Str(<<"r","e","d">>)} }
  \cup
  { Query(t, i, Str(<<"b","l","u","e">>), Undefined, Undefined, e, v, s) :
      t \in {Undefined, Str(<<"H","i">>)},
      i \in {Undefined, Str(<<>>)},
      e \in {Undefined, Str(<<"p","i","l","l">>), Str(<<"c","u","r","v","e","d">>), [t |-> "array"]},
      v \in {Undefined, Str(<<"2">>)},
      s \in {Undefined, Str(<<>>), Str(<<"0">>), Str(<<"6","0">>)} }

\* the errors axios.get rejects with
FetchErrors == {"ETIMEDOUT", "ECONNRESET", "ENOTFOUND", "ERR_BAD_REQUEST", "ERR_BAD_RESPONSE"}

Pad == [i \in 1..200 |-> " "]

BufferPieces ==
  { <<>>, PngSignature, JpegSignature, Gif89aSignature,
    <<"<","s","v","g",">","<","/","s","v","g",">">>, <<"<","S","V","G","/",">">>, <<"<","?","x","m","l"," ","?",">">>, <<"<","h","t","m","l",">">>, <<"<","!","D","O","C","T","Y","P","E"," ","s","v","g",">">>,
    <<"E","r","r","o","r">>, <<"s","v","g">>, Pad }

RECURSIVE Concats(_)
\* the concatenations of at most n pieces
Concats(n) ==
  IF n = 0 THEN {<<>>} ELSE {a \o b : a \in BufferPieces, b \in Concats(n - 1)}

FetchedBuffers == Concats(MaxPieces)

SvgRoot(attrs) ==
  << Tag(<<"s","v","g">>, attrs, ">"),
     Tag(<<"p","a","t","h">>, <<Attr(<<"d">>, <<"M","0"," ","0">>), Attr(<<"f","i","l","l">>, <<"c","u","r","r","e","n","t","C","o","l","o","r">>)>>, "/>"),
     Close(<<"s","v","g">>) >>

\* what DOMPurify's sanitize returns, or the exception it throws
SanitizerOutcomes ==
  {Throw("Error")} \cup
  { [t |-> "string", nodes |-> d] : d \in {
    <<>>,
    SvgRoot(<<>>),
    SvgRoot(<<Attr(<<"v","i","e","w","B","o","x">>, <<"0"," ","0"," ","2","4"," ","2","4">>)>>),
    SvgRoot(<<Attr(<<"v","i","e","w","B","o","x">>, <<"0"," ","0"," ","4","8"," ","2","4">>), Attr(<<"w","i","d","t","h">>, <<"1","0","0">>)>>),
    SvgRoot(<<Attr(<<"v","i","e","w","B","o","x">>, <<"0"," ","0"," ","1"," ","1","0","0">>)>>),
    SvgRoot(<<Attr(<<"v","i","e","w","B","o","x">>, <<"0"," ","0"," ","1","0","0","0"," ","1","0">>)>>),
    SvgRoot(<<Attr(<<"v","i","e","w","B","o","x">>, <<"0",",","0",",","2","4",",","2","4">>)>>),
    SvgRoot(<<Attr(<<"w","i","d","t","h">>, <<"4","8">>), Attr(<<"h","e","i","g","h","t">>, <<"1","0">>)>>),
    SvgRoot(<<Attr(<<"s","t","r","o","k","e","-","w","i","d","t","h">>, <<"2">>), Attr(<<"h","e","i","g","h","t">>, <<"0">>)>>) } }

\* what sharp and potrace answer
SharpOutcomes ==
  [ metadata : {Throw("Error")}
                 \cup {[width |-> w, height |-> h] : w \in {1, 40}, h \in {1, 40}},
    resize   : {"ok", "throw"},
    trace    : {"ok", "throw"} ]

Init ==
  /\ pc = "idle"
  /\ req = Pending
  /\ url = Pending
  /\ gets = <<>>
  /\ fetched = Pending
  /\ logoCache = Pending
  /\ logoCalls = Pending
  /\ storageFiles = Pending
  /\ memoryRepos = Pending
  /\ redisViews = Pending
  /\ memoryViews = Pending
  /\ viewCalls = Pending
  /\ sharpMetadata = Pending
  /\ sanitizedSvg = Pending
  /\ handed = {}
  /\ processed = Pending
  /\ iconResult = Pending
  /\ res = Pending
  /\ dynamicValue = Pending
  /\ generated = Pending
  /\ IdleColor /\ IdleLayout /\ IdleRecolor /\ IdleClassify

\* `v = d` of a destructuring pattern: the default replaces undefined only
withDefault(value, d) == IF value = Undefined THEN d ELSE value

\* app.get('/badge') up to the first await of generateIcon: the parameters are
\* destructured, generateStaticBadge calls generateIcon, which returns null
\* for a falsy icon and otherwise resolves the URL and starts fetchImage's GET
BadgeRequest(query) ==
  /\ pc = "idle"
  /\ req' = [query EXCEPT !.bgColor   = withDefault(@, Str(<<"w","h","i","t","e">>)),
                          !.textColor = withDefault(@, Str(<<"w","h","i","t","e">>)),
                          !.edges     = withDefault(@, Str(<<"s","q","u","a","r","e","d">>))]
  /\ IF ~Truthy(query.icon)
       THEN /\ iconResult' = Null
            /\ pc' = "render"
            /\ UNCHANGED <<url, gets>>
       ELSE /\ url' = resolveIconUrl(query.icon.s)
            /\ IF IsThrow(url')
                 THEN pc' = "rejected" /\ UNCHANGED gets
                 ELSE /\ pc' = "fetching"
                      /\ gets' = <<[url |-> url', timeout |-> 10000, outcome |-> "pending"]>>
            /\ UNCHANGED iconResult
  /\ UNCHANGED <<fetched, handed, processed, res, colorVars, layoutVars, recolorVars, dynamicVars, classifyVars, sanitizedSvg, sharpMetadata, viewCalls, memoryViews, redisViews, memoryRepos, storageFiles, logoCalls, logoCache>>

\* fetchImage: axios.get rejected, the catch returns null and generateIcon
\* returns null
FetchImageFails(error) ==
  /\ pc = "fetching"
  /\ gets' = [gets EXCEPT ![Len(gets)].outcome = error]
  /\ fetched' = Null
  /\ iconResult' = Null
  /\ pc' = "render"
  /\ UNCHANGED <<req, url, handed, processed, res, colorVars, layoutVars, recolorVars, dynamicVars, classifyVars, sanitizedSvg, sharpMetadata, viewCalls, memoryViews, redisViews, memoryRepos, storageFiles, logoCalls, logoCache>>

\* fetchImage: axios.get resolved with data, which takes an http(s) URL;
\* generateIcon picks the processor
FetchImageReturns(data) ==
  /\ pc = "fetching"
  /\ StartsWith(url.s, <<"h","t","t","p",":","/","/">>)
       \/ StartsWith(url.s, <<"h","t","t","p","s",":","/","/">>)
  /\ gets' = [gets EXCEPT ![Len(gets)].outcome = "ok"]
  /\ fetched' = [bytes |-> data]
  /\ pc' = IF isSvgBuffer(data) THEN "processSvg" ELSE "processPixel"
  /\ UNCHANGED <<req, url, handed, processed, iconResult, res, colorVars, layoutVars, recolorVars, dynamicVars, classifyVars, sanitizedSvg, sharpMetadata, viewCalls, memoryViews, redisViews, memoryRepos, storageFiles, logoCalls, logoCache>>

\* generateIcon from processSvgImage(buffer) to its return
ProcessSvgImage(sanitized) ==
  /\ pc = "processSvg"
  /\ sanitizedSvg' = sanitized
  /\ handed' = handed \cup {"sanitizer"}
  /\ processed' = processSvgImage(sanitized)
  /\ iconResult' = finishIcon(processed', req.iconColor)
  /\ pc' = "render"
  /\ UNCHANGED <<req, url, gets, fetched, res, colorVars, layoutVars, recolorVars, dynamicVars, classifyVars, sharpMetadata, viewCalls, memoryViews, redisViews, memoryRepos, storageFiles, logoCalls, logoCache>>

\* generateIcon from processPixelImage(buffer, iconColor) to its return
ProcessPixelImage(sharp) ==
  /\ pc = "processPixel"
  /\ handed' = IF isValidImageBuffer(fetched.bytes) THEN handed \cup {"decoder"} ELSE handed
  /\ processed' = processPixelImage(fetched.bytes, req.iconColor, sharp)
  /\ iconResult' = finishIcon(processed', req.iconColor)
  /\ pc' = "render"
  /\ UNCHANGED <<req, url, gets, fetched, res, colorVars, layoutVars, recolorVars, dynamicVars, classifyVars, sanitizedSvg, sharpMetadata, viewCalls, memoryViews, redisViews, memoryRepos, storageFiles, logoCalls, logoCache>>

NoStoreHeaders ==
  [ contentType  |-> "image/svg+xml",
    cacheControl |-> "max-age=0, no-cache, no-store, must-revalidate, proxy-revalidate",
    pragma       |-> "no-cache",
    expires      |-> "0" ]

DefaultHeaders ==
  [ contentType  |-> "image/svg+xml",
    cacheControl |-> "public, max-age=3600",
    pragma       |-> "",
    expires      |-> "" ]

RECURSIVE Join(_)
\* the characters of a string as one header value
Join(s) == IF s = <<>> THEN "" ELSE Head(s) \o Join(Tail(s))

\* `public, max-age=${parseInt(cacheSeconds)}`
PublicHeaders(seconds) ==
  [ contentType  |-> "image/svg+xml",
    cacheControl |-> "public, max-age=" \o Join(numberToString(seconds)),
    pragma       |-> "",
    expires      |-> "" ]

\* the routes' choice of cache headers: if (v || cacheSeconds) ... else if
\* (cacheSeconds && parseInt(cacheSeconds) > 0) ... else the route's default
cacheHeaders(v, cacheSeconds, fallback) ==
  IF Truthy(v) \/ Truthy(cacheSeconds)
    THEN NoStoreHeaders
  ELSE IF Truthy(cacheSeconds) /\ cacheSeconds.t = "string"
          /\ ~parseNumber(cacheSeconds.s).nan /\ parseNumber(cacheSeconds.s).n > 0
    THEN PublicHeaders(parseNumber(cacheSeconds.s).n)
  ELSE fallback

InternalServerError ==
  [ status |-> 500,
    headers |-> [contentType |-> "text/html", cacheControl |-> "", pragma |-> "", expires |-> ""],
    body |-> [text |-> "Internal Server Error"] ]

\* generateStaticBadge renders and the route answers: the cache headers and
\* the markup, or 500 when generateBadgeSvg threw
SendBadge ==
  /\ pc = "render"
  /\ LET svg == generateBadgeSvg(req.text, req.bgColor, iconResult, req.textColor, req.edges)
     IN  res' = IF IsThrow(svg) THEN InternalServerError
                ELSE [ status  |-> 200,
                       headers |-> cacheHeaders(req.v, req.cacheSeconds, DefaultHeaders),
                       body    |-> [svg |-> svg] ]
  /\ pc' = "done"
  /\ UNCHANGED <<req, url, gets, fetched, handed, processed, iconResult,
                 colorVars, layoutVars, recolorVars, dynamicVars, classifyVars, sanitizedSvg, sharpMetadata, viewCalls, memoryViews, redisViews, memoryRepos, storageFiles, logoCalls, logoCache>>

\* generateStaticBadge rejected: the route's catch answers 500
SendError ==
  /\ pc = "rejected"
  /\ res' = InternalServerError
  /\ pc' = "done"
  /\ UNCHANGED <<req, url, gets, fetched, handed, processed, iconResult,
                 colorVars, layoutVars, recolorVars, dynamicVars, classifyVars, sanitizedSvg, sharpMetadata, viewCalls, memoryViews, redisViews, memoryRepos, storageFiles, logoCalls, logoCache>>

Next ==
  \/ \E query \in Queries : BadgeRequest(query)
  \/ \E error \in FetchErrors : FetchImageFails(error)
  \/ \E data \in FetchedBuffers : FetchImageReturns(data)
  \/ \E sanitized \in SanitizerOutcomes : ProcessSvgImage(sanitized)
  \/ \E sharp \in SharpOutcomes : ProcessPixelImage(sharp)
  \/ SendBadge
  \/ SendError

Spec == Init /\ [][Next]_vars

\* ------------------------------------------------------------------------
\* SpecDynamic: one request to GET /badge/dynamic/:type or GET /test, or
\* one call of generate on an instance of the base class DynamicBadge
\* ------------------------------------------------------------------------

\* req.params.type and req.query of the dynamic route
DynamicQueries ==
  LET q(type, repo, package, text, icon, edges, v, cacheSeconds) ==
        [ type |-> type, repo |-> repo, package |-> package, text |-> text, icon |-> icon,
          bgColor |-> Undefined, iconColor |-> Undefined, textColor |-> Undefined,
          edges |-> edges, v |-> v, cacheSeconds |-> cacheSeconds ]
  IN  { q(type, Str(<<"a","/","B">>), Undefined, text, Undefined, edges, v, s) :
          type \in {"viewers", "stars", "downloads", "last-commit", "open-issues", "forks"},
          text \in {Undefined, Str(<<"S","t","a","r","s">>)},
          edges \in {Undefined, [t |-> "array"]},
          v \in {Undefined, Str(<<"2">>)},
          s \in {Undefined, Str(<<"6","0">>)} }
      \cup
      { q(type, repo, Str(<<"l","e","f","t","-","p","a","d">>), Undefined, Undefined, Undefined, Undefined, Undefined) :
          type \in {"viewers", "stars", "downloads"},
          repo \in {Undefined, Str(<<>>), [t |-> "array"]} }
      \cup
      { q("stars", Str(<<"a","/","B">>), Undefined, text, Str(icon), Undefined, Undefined, Undefined) :
          text \in {Undefined, Str(<<"S","t","a","r","s">>)},
          icon \in {<<"l","u","c","i","d","e",":","s","t","a","r">>, <<"c","o","n","s","t","r","u","c","t","o","r",":","x">>, <<"s","t","a","r",".","s","v","g">>} }

InitDynamic ==
  /\ pc = "idle"
  /\ req = Pending
  /\ url = Pending
  /\ gets = <<>>
  /\ fetched = Pending
  /\ logoCache = Pending
  /\ logoCalls = Pending
  /\ storageFiles = Pending
  /\ memoryRepos = Pending
  /\ redisViews = Pending
  /\ memoryViews = Pending
  /\ viewCalls = Pending
  /\ sharpMetadata = Pending
  /\ sanitizedSvg = Pending
  /\ handed = {}
  /\ processed = Pending
  /\ iconResult = Pending
  /\ res = Pending
  /\ dynamicValue = Pending
  /\ generated = Pending
  /\ IdleColor /\ IdleLayout /\ IdleRecolor /\ IdleClassify

\* generateBadgeSvg('Error', 'red', null, 'white', 'squared')
ErrorBadge ==
  generateBadgeSvg(Str(<<"E","r","r","o","r">>), Str(<<"r","e","d">>), Null, Str(<<"w","h","i","t","e">>), Str(<<"s","q","u","a","r","e","d">>))

\* generate without its outer catch
Rethrow(result) == result

\* the outer catch of generate: whatever was thrown, the error badge is returned
generateCatch(result) == IF IsThrow(result) THEN ErrorBadge ELSE result

\* the route up to the await inside fetchData: the switch on type with its
\* 400 answers, the constructor (repo.toLowerCase() throws on a repo that is
\* no string, which the route's catch answers with 500), then fetchData's
\* first await: the view counter for viewers, a GET without timeout for the
\* other types
DynamicRequest(query) ==
  /\ pc = "idle"
  /\ LET needsRepo == query.type \in {"viewers", "stars", "last-commit", "open-issues"}
         known     == needsRepo \/ query.type = "downloads"
         missing   == IF needsRepo THEN ~Truthy(query.repo) ELSE ~Truthy(query.package)
         badRequest(text) ==
           [ status |-> 400,
             headers |-> [contentType |-> "text/html", cacheControl |-> "", pragma |-> "", expires |-> ""],
             body |-> [text |-> text] ]
         repo      == IF needsRepo THEN toLowerCase(query.repo.s) ELSE <<>>
         dataUrl   ==
           CASE query.type = "downloads" ->
                  <<"h","t","t","p","s",":","/","/","a","p","i",".","n","p","m","j","s",".","o","r","g","/","d","o","w","n","l","o","a","d","s","/","p","o","i","n","t","/","l","a","s","t","-","m","o","n","t","h","/">> \o query.package.s
             [] query.type = "last-commit" ->
                  <<"h","t","t","p","s",":","/","/","a","p","i",".","g","i","t","h","u","b",".","c","o","m","/","r","e","p","o","s","/">> \o repo \o <<"/","c","o","m","m","i","t","s","?","p","e","r","_","p","a","g","e","=","1">>
             [] OTHER -> <<"h","t","t","p","s",":","/","/","a","p","i",".","g","i","t","h","u","b",".","c","o","m","/","r","e","p","o","s","/">> \o repo
     IN  IF ~known \/ missing
           THEN /\ res' = badRequest(IF ~known THEN "Invalid badge type"
                                     ELSE IF needsRepo THEN "Missing repo parameter"
                                     ELSE "Missing package parameter")
                /\ pc' = "done"
                /\ UNCHANGED <<req, gets>>
         ELSE IF needsRepo /\ query.repo.t # "string"
           THEN /\ res' = InternalServerError
                /\ pc' = "done"
                /\ UNCHANGED <<req, gets>>
         ELSE /\ req' = [query EXCEPT !.bgColor   = withDefault(@, Str(<<"b","l","u","e">>)),
                                      !.textColor = withDefault(@, Str(<<"w","h","i","t","e">>)),
                                      !.edges     = withDefault(@, Str(<<"s","q","u","a","r","e","d">>))]
              /\ IF query.type = "viewers"
                   THEN pc' = "counting" /\ UNCHANGED gets
                   ELSE /\ pc' = "fetchingData"
                        \* no timeout in the request config: axios's default 0, no timeout
                        /\ gets' = <<[url |-> Str(dataUrl), timeout |-> 0, outcome |-> "pending"]>>
              /\ UNCHANGED res
  /\ UNCHANGED <<url, fetched, handed, processed, iconResult, dynamicVars,
                 colorVars, layoutVars, recolorVars, classifyVars, sanitizedSvg, sharpMetadata, viewCalls, memoryViews, redisViews, memoryRepos, storageFiles, logoCalls, logoCache>>

\* new DynamicBadge(options).generate(): the base class's fetchData throws,
\* the await rethrows inside the try and the catch returns the error badge
GenerateBase(query) ==
  /\ pc = "idle"
  /\ query.type = "stars"
  /\ req' = [query EXCEPT !.type      = "base",
                          !.bgColor   = withDefault(@, Str(<<"b","l","u","e">>)),
                          !.textColor = withDefault(@, Str(<<"w","h","i","t","e">>)),
                          !.edges     = withDefault(@, Str(<<"s","q","u","a","r","e","d">>))]
  /\ dynamicValue' = Throw("Error")
  /\ generated' = generateCatch(dynamicValue')
  /\ pc' = "returned"
  /\ UNCHANGED <<url, gets, fetched, handed, processed, iconResult, res,
                 colorVars, layoutVars, recolorVars, classifyVars, sanitizedSvg, sharpMetadata, viewCalls, memoryViews, redisViews, memoryRepos, storageFiles, logoCalls, logoCache>>

\* fetchData settles: the value read, or the fallback of the subclass's
\* catch ('0' for viewers, 'N/A' for the others); generate goes on to
\* generateIcon, whose exception it catches, up to await fetchImage(url)
FetchDataSettles(outcome) ==
  /\ pc \in {"counting", "fetchingData"}
  /\ dynamicValue' = IF ~IsThrow(outcome) THEN outcome
                     ELSE IF req.type = "viewers" THEN Str(<<"0">>) ELSE Str(<<"N","/","A">>)
  /\ LET answered == IF pc = "counting" THEN gets
                     ELSE [gets EXCEPT ![Len(gets)].outcome =
                             IF IsThrow(outcome) THEN outcome.throw ELSE "ok"]
     IN  IF ~Truthy(req.icon)
           THEN /\ iconResult' = Null
                /\ pc' = "render"
                /\ gets' = answered
                /\ UNCHANGED url
           ELSE /\ url' = resolveIconUrl(req.icon.s)
                /\ IF IsThrow(url')
                     THEN /\ iconResult' = Null
                          /\ pc' = "render"
                          /\ gets' = answered
                     ELSE /\ pc' = "fetching"
                          /\ gets' = Append(answered, [url |-> url', timeout |-> 10000, outcome |-> "pending"])
                          /\ UNCHANGED iconResult
  /\ UNCHANGED <<req, fetched, handed, processed, res, generated,
                 colorVars, layoutVars, recolorVars, classifyVars, sanitizedSvg, sharpMetadata, viewCalls, memoryViews, redisViews, memoryRepos, storageFiles, logoCalls, logoCache>>

\* generate from the icon data to its return: the text, the markup, or the
\* error badge when rendering threw
GenerateReturns ==
  /\ pc = "render"
  /\ LET displayText == IF Truthy(req.text)
                          THEN Str(req.text.s \o <<":"," ">> \o dynamicValue.s)
                          ELSE dynamicValue
     IN  generated' = generateCatch(generateBadgeSvg(displayText, req.bgColor, iconResult,
                                                     req.textColor, req.edges))
  /\ pc' = "generated"
  /\ UNCHANGED <<req, url, gets, fetched, handed, processed, iconResult, res, dynamicValue,
                 colorVars, layoutVars, recolorVars, classifyVars, sanitizedSvg, sharpMetadata, viewCalls, memoryViews, redisViews, memoryRepos, storageFiles, logoCalls, logoCache>>

\* the route after await badgeInstance.generate(): the cache headers and the markup
SendDynamicBadge ==
  /\ pc = "generated"
  /\ res' = [ status  |-> 200,
              headers |-> cacheHeaders(req.v, req.cacheSeconds,
                            [ contentType  |-> "image/svg+xml",
                              cacheControl |-> "max-age=0, no-cache, no-store, must-revalidate",
                              pragma       |-> "",
                              expires      |-> "" ]),
              body    |-> [svg |-> generated] ]
  /\ pc' = "done"
  /\ UNCHANGED <<req, url, gets, fetched, handed, processed, iconResult, dynamicVars,
                 colorVars, layoutVars, recolorVars, classifyVars, sanitizedSvg, sharpMetadata, viewCalls, memoryViews, redisViews, memoryRepos, storageFiles, logoCalls, logoCache>>

\* GET /test: require('./utils/badgeUtils') returns the module or throws;
\* the catch answers with the exception's message and stack
TestRoute(required) ==
  /\ pc = "idle"
  /\ LET svg == IF IsThrow(required) THEN required
                ELSE generateBadgeSvg(Str(<<"T","e","s","t">>), Str(<<"b","l","u","e">>), Null, Str(<<"w","h","i","t","e">>), Str(<<"s","q","u","a","r","e","d">>))
     IN  res' = IF IsThrow(svg)
                  THEN [ status |-> 500,
                         headers |-> [contentType |-> "application/json", cacheControl |-> "", pragma |-> "", expires |-> ""],
                         body |-> [json |-> [error |-> "error.message", stack |-> "error.stack"]] ]
                  ELSE [ status |-> 200,
                         headers |-> [contentType |-> "image/svg+xml", cacheControl |-> "", pragma |-> "", expires |-> ""],
                         body |-> [svg |-> svg] ]
  /\ pc' = "done"
  /\ UNCHANGED <<req, url, gets, fetched, handed, processed, iconResult, dynamicVars,
                 colorVars, layoutVars, recolorVars, classifyVars, sanitizedSvg, sharpMetadata, viewCalls, memoryViews, redisViews, memoryRepos, storageFiles, logoCalls, logoCache>>

NextDynamic ==
  \/ \E query \in DynamicQueries : DynamicRequest(query)
  \/ \E query \in DynamicQueries : GenerateBase(query)
  \/ \E required \in {"module", "MODULE_NOT_FOUND"} :
       TestRoute(IF required = "module" THEN [t |-> "object"] ELSE Throw(required))
  \/ \E outcome \in {Str(<<"4","2">>)} \cup {Throw(error) : error \in FetchErrors} : FetchDataSettles(outcome)
  \/ \E error \in FetchErrors : FetchImageFails(error)
  \/ \E data \in {<<"<","s","v","g",">","<","/","s","v","g",">">>, PngSignature, PngSignature \o <<"<","h","t","m","l",">">>, <<>>} : FetchImageReturns(data)
  \/ \E sanitized \in {s \in SanitizerOutcomes : IsThrow(s) \/ (Len(s.nodes) = 3 /\ Len(s.nodes[1].attrs) <= 1)} :
       ProcessSvgImage(sanitized)
  \/ \E sharp \in {s \in SharpOutcomes : s.resize = "ok" /\ s.trace = "ok"} : ProcessPixelImage(sharp)
  \/ GenerateReturns
  \/ SendDynamicBadge

\* what the scheduling grants: the handlers' own steps run, and a GET that
\* carries a timeout settles (answered, failed or timed out); the view
\* counter's storage answers.  A GET without timeout settles only if the
\* upstream server answers, which nothing grants.
Fairness ==
  LET Upstream == \/ \E outcome \in {Str(<<"4","2">>)} \cup {Throw(error) : error \in FetchErrors} : FetchDataSettles(outcome)
                  \/ \E error \in FetchErrors : FetchImageFails(error)
      Settles  == pc = "counting" \/ (gets # <<>> /\ gets[Len(gets)].timeout > 0)
  IN  /\ WF_vars(NextDynamic /\ pc \notin {"counting", "fetchingData", "fetching"})
      /\ WF_vars(Upstream /\ Settles)

SpecDynamic == InitDynamic /\ [][NextDynamic]_vars /\ Fairness

\* ------------------------------------------------------------------------
\* SpecClassify: one call of isValidImageBuffer on a buffer of ClassifyInputs
\* ------------------------------------------------------------------------

MaxMarkers == 2

\* what may follow the first bytes: the markers the validator looks for, the
\* markup openers, 200 bytes of padding that push what follows out of the
\* decoded prefix, and plain bytes
MarkerPieces ==
  { <<>>, <<"<","h","t","m","l">>, <<"<","!","D","O","C","T","Y","P","E">>, <<"<","b","o","d","y">>, <<"E","r","r","o","r">>,
    <<"<","s","v","g">>, <<"<","?","x","m","l">>, <<"I","H","D","R">>, Pad }

RECURSIVE MarkerRuns(_)
\* the concatenations of at most n pieces
MarkerRuns(n) ==
  IF n = 0 THEN {<<>>} ELSE {a \o b : a \in MarkerPieces, b \in MarkerRuns(n - 1)}

\* a raster signature, complete, cut short by one byte, or absent, then the run
ClassifyInputs ==
  { p \o r : p \in RasterSignatures \cup {<<>>, SubSeq(PngSignature, 1, 7), <<"G","I","F","8","8","a">>},
             r \in MarkerRuns(MaxMarkers) }

InitClassify ==
  /\ bufferArg \in {[bytes |-> b] : b \in ClassifyInputs}
  /\ validRet = Pending
  /\ IdleColor /\ IdleLayout /\ IdleRecolor /\ IdleRoute

IsValidImageBuffer ==
  /\ validRet = Pending
  /\ validRet' = [t |-> "boolean", b |-> isValidImageBuffer(bufferArg.bytes)]
  /\ UNCHANGED <<bufferArg, colorVars, layoutVars, recolorVars, routeVars>>

NextClassify == IsValidImageBuffer

SpecClassify == InitClassify /\ [][NextClassify]_vars

\* ------------------------------------------------------------------------
\* SpecFetch: one call of fetchImage of src/new.js, the variant that retries
\* ------------------------------------------------------------------------

\* axios.get(url, config) against what the upstream server does: a thrown
\* error is passed on, and a body longer than config.maxContentLength (when
\* that is not -1, the library's default) is rejected
axiosGet(config, upstream) ==
  IF IsThrow(upstream) THEN upstream
  ELSE IF config.maxContentLength > -1 /\ upstream.length > config.maxContentLength
    THEN Throw("ERR_BAD_RESPONSE")
  ELSE upstream

\* what the upstream server does with a GET: a body of some length in bytes,
\* or an error
Upstreams ==
  {[length |-> n] : n \in {0, 1024, 5 * 1024 * 1024, 5 * 1024 * 1024 + 1, 10 * 1024 * 1024}}
    \cup {Throw(error) : error \in FetchErrors}

InitFetch ==
  /\ pc = "call"
  /\ req = Pending
  /\ url = Pending
  /\ gets = <<>>
  /\ fetched = Pending
  /\ logoCache = Pending
  /\ logoCalls = Pending
  /\ storageFiles = Pending
  /\ memoryRepos = Pending
  /\ redisViews = Pending
  /\ memoryViews = Pending
  /\ viewCalls = Pending
  /\ sharpMetadata = Pending
  /\ sanitizedSvg = Pending
  /\ handed = {}
  /\ processed = Pending
  /\ iconResult = Pending
  /\ res = Pending
  /\ dynamicValue = Pending
  /\ generated = Pending
  /\ IdleColor /\ IdleLayout /\ IdleRecolor /\ IdleClassify

\* fetchImage(url) up to the first await axios.get, for a URL that
\* resolveIconUrl returned and that axios can request
NewFetchImage(u) ==
  /\ pc = "call"
  /\ ~IsThrow(u)
  /\ StartsWith(u.s, <<"h","t","t","p">>)
  /\ url' = u
  /\ gets' = <<[url |-> u, timeout |-> 10000, maxContentLength |-> 5 * 1024 * 1024,
                outcome |-> "pending"]>>
  /\ pc' = "first"
  /\ UNCHANGED <<req, fetched, sanitizedSvg, handed, processed, iconResult, res, dynamicVars,
                 colorVars, layoutVars, recolorVars, classifyVars, sharpMetadata, viewCalls, memoryViews, redisViews, memoryRepos, storageFiles, logoCalls, logoCache>>

\* the first GET settles: the buffer is returned (a length over 5 MB would
\* only be logged), or the catch runs: on ETIMEDOUT or ECONNRESET it issues
\* the retry, whose config has timeout 15000 and no maxContentLength, on any
\* other error it returns null
NewFirstGetSettles(upstream) ==
  /\ pc = "first"
  /\ LET response == axiosGet(gets[1], upstream)
     IN  /\ IF ~IsThrow(response)
              THEN /\ fetched' = response
                   /\ gets' = [gets EXCEPT ![1].outcome = "ok"]
                   /\ pc' = "returned"
            ELSE IF response.throw \in {"ETIMEDOUT", "ECONNRESET"}
              THEN /\ gets' = Append([gets EXCEPT ![1].outcome = response.throw],
                                     [url |-> url, timeout |-> 15000, maxContentLength |-> -1,
                                      outcome |-> "pending"])
                   /\ pc' = "retry"
                   /\ UNCHANGED fetched
            ELSE /\ fetched' = Null
                 /\ gets' = [gets EXCEPT ![1].outcome = response.throw]
                 /\ pc' = "returned"
  /\ UNCHANGED <<req, url, sanitizedSvg, handed, processed, iconResult, res, dynamicVars,
                 colorVars, layoutVars, recolorVars, classifyVars, sharpMetadata, viewCalls, memoryViews, redisViews, memoryRepos, storageFiles, logoCalls, logoCache>>

\* the retry settles: Buffer.from(retryResponse.data) is returned, or the
\* inner catch logs and null is returned
NewRetryGetSettles(upstream) ==
  /\ pc = "retry"
  /\ LET response == axiosGet(gets[2], upstream)
     IN  /\ fetched' = IF IsThrow(response) THEN Null ELSE response
         /\ gets' = [gets EXCEPT ![2].outcome = IF IsThrow(response) THEN response.throw ELSE "ok"]
  /\ pc' = "returned"
  /\ UNCHANGED <<req, url, sanitizedSvg, handed, processed, iconResult, res, dynamicVars,
                 colorVars, layoutVars, recolorVars, classifyVars, sharpMetadata, viewCalls, memoryViews, redisViews, memoryRepos, storageFiles, logoCalls, logoCache>>

NextFetch ==
  \/ \E ref \in IconRefs : NewFetchImage(resolveIconUrl(ref))
  \/ \E upstream \in Upstreams : NewFirstGetSettles(upstream)
  \/ \E upstream \in Upstreams : NewRetryGetSettles(upstream)

SpecFetch == InitFetch /\ [][NextFetch]_vars

\* ------------------------------------------------------------------------
\* src/new.js: processPixelImage(buffer, iconColor), one step per await
\* (SpecPixel)
\* ------------------------------------------------------------------------

\* evaluating an identifier: its binding in the scope chain, or a
\* ReferenceError when no enclosing scope declares it
ReadIdentifier(name, scope) ==
  IF name \in DOMAIN scope THEN scope[name] ELSE Throw("ReferenceError")

\* lines 629-670, after both awaits: scope holds what processPixelImage
\* declared so far (its parameters and the consts above line 629); the
\* module level of src/new.js declares no iconData
newDisplayIcon(scope) ==
  LET iconData == ReadIdentifier("iconData", scope)
  IN  IF IsThrow(iconData) THEN iconData
      ELSE
        LET displayHeight == Min(iconData.height, 20)
            displayWidth  == Round(displayHeight * scope.metadata.width, scope.metadata.height)
            maxDisplayWidth == 28
            cappedHeight  == Round(maxDisplayWidth * scope.metadata.height, scope.metadata.width)
            finalHeight   == IF displayWidth > maxDisplayWidth
                               THEN IF cappedHeight < 10 THEN 10 ELSE cappedHeight
                               ELSE displayHeight
            finalWidth    == IF displayWidth > maxDisplayWidth
                               THEN IF cappedHeight < 10
                                      THEN Round(10 * scope.metadata.width, scope.metadata.height)
                                      ELSE maxDisplayWidth
                               ELSE displayWidth
        IN  [ dataUri |-> [ mime     |-> "image/svg+xml",
                            base64   |-> rasterEnvelope(finalWidth, finalHeight),
                            enhanced |-> Truthy(scope.iconColor) ],
              width   |-> finalWidth,
              height  |-> finalHeight ]

InitPixel ==
  /\ pc = "call"
  /\ req \in {[iconColor |-> c] : c \in {Undefined, Str(<<"r","e","d">>)}}
  /\ url = Pending
  /\ gets = <<>>
  /\ fetched \in {[bytes |-> b] : b \in FetchedBuffers}
  /\ logoCache = Pending
  /\ logoCalls = Pending
  /\ storageFiles = Pending
  /\ memoryRepos = Pending
  /\ redisViews = Pending
  /\ memoryViews = Pending
  /\ viewCalls = Pending
  /\ sharpMetadata = Pending
  /\ sanitizedSvg = Pending
  /\ handed = {}
  /\ processed = Pending
  /\ iconResult = Pending
  /\ res = Pending
  /\ dynamicValue = Pending
  /\ generated = Pending
  /\ IdleColor /\ IdleLayout /\ IdleRecolor /\ IdleClassify

\* processPixelImage up to `await sharp(buffer).metadata()`
NewProcessPixelImage ==
  /\ pc = "call"
  /\ IF ~isValidImageBuffer(fetched.bytes)
       THEN processed' = Null /\ pc' = "returned" /\ handed' = handed
       ELSE processed' = processed /\ pc' = "metadata" /\ handed' = {"decoder"}
  /\ UNCHANGED <<req, url, gets, fetched, sharpMetadata, sanitizedSvg, iconResult, res,
                 colorVars, layoutVars, recolorVars, dynamicVars, classifyVars, viewCalls, memoryViews, redisViews, memoryRepos, storageFiles, logoCalls, logoCache>>

\* metadata() settles; on success the working size is computed and
\* `await sharp(buffer).resize(...).toBuffer()` is reached
NewMetadataSettles(metadata) ==
  /\ pc = "metadata"
  /\ IF IsThrow(metadata)
       THEN processed' = Null /\ pc' = "returned" /\ sharpMetadata' = sharpMetadata
       ELSE processed' = processed /\ pc' = "resize" /\ sharpMetadata' = metadata
  /\ UNCHANGED <<req, url, gets, fetched, sanitizedSvg, handed, iconResult, res,
                 colorVars, layoutVars, recolorVars, dynamicVars, classifyVars, viewCalls, memoryViews, redisViews, memoryRepos, storageFiles, logoCalls, logoCache>>

\* toBuffer() settles; on success lines 629-670 run, and the catch turns
\* whatever they throw into null
NewResizeSettles(resize) ==
  /\ pc = "resize"
  /\ LET result == newDisplayIcon([ buffer    |-> fetched,
                                    iconColor |-> req.iconColor,
                                    metadata  |-> sharpMetadata,
                                    workingSize     |-> 512,
                                    processedBuffer |-> "png" ])
     IN  processed' = IF resize = "throw" \/ IsThrow(result) THEN Null ELSE result
  /\ pc' = IF resize = "throw" THEN "returned" ELSE "returnedAfterResize"
  /\ UNCHANGED <<req, url, gets, fetched, sharpMetadata, sanitizedSvg, handed, iconResult, res,
                 colorVars, layoutVars, recolorVars, dynamicVars, classifyVars, viewCalls, memoryViews, redisViews, memoryRepos, storageFiles, logoCalls, logoCache>>

NextPixel ==
  \/ NewProcessPixelImage
  \/ \E metadata \in {Throw("Error")} \cup {[width |-> w, height |-> h] : w \in {1, 40}, h \in {1, 40}} :
       NewMetadataSettles(metadata)
  \/ \E resize \in {"ok", "throw"} : NewResizeSettles(resize)

SpecPixel == InitPixel /\ [][NextPixel]_vars

\* ------------------------------------------------------------------------
\* badges/DynamicBadge.js: incrementViewCount(repo), calls for one repo
\* running concurrently, Redis configured and answering, no PostgreSQL, no
\* file storage (SpecViews)
\* ------------------------------------------------------------------------

MaxCalls == 3

Calls == 1..MaxCalls

Count(n) == [t |-> "number", n |-> n]

InitViews ==
  /\ pc = "serving"
  /\ viewCalls = [i \in Calls |-> [pc |-> "idle", newCount |-> Null, returned |-> Null]]
  /\ redisViews \in {Null, Count(0), Count(7)}
  /\ memoryViews \in {Null, Count(2)}
  /\ req = Pending
  /\ url = Pending
  /\ gets = <<>>
  /\ fetched = Pending
  /\ logoCache = Pending
  /\ logoCalls = Pending
  /\ storageFiles = Pending
  /\ memoryRepos = Pending
  /\ sharpMetadata = Pending
  /\ sanitizedSvg = Pending
  /\ handed = {}
  /\ processed = Pending
  /\ iconResult = Pending
  /\ res = Pending
  /\ dynamicValue = Pending
  /\ generated = Pending
  /\ IdleColor /\ IdleLayout /\ IdleRecolor /\ IdleClassify

\* incrementViewCount -> getViewCount up to `await redisClient.get(key)`
IncrementViewCount(i) ==
  /\ viewCalls[i].pc = "idle"
  /\ viewCalls' = [viewCalls EXCEPT ![i].pc = "get"]
  /\ UNCHANGED <<pc, req, url, gets, fetched, sharpMetadata, sanitizedSvg, handed, processed,
                 iconResult, res, memoryViews, redisViews,
                 colorVars, layoutVars, recolorVars, dynamicVars, classifyVars, memoryRepos, storageFiles, logoCalls, logoCache>>

\* the GET is answered: getViewCount returns the stored count (syncing
\* memoryStorage) or, when the key is absent, memoryStorage.get(repo) || 0;
\* incrementViewCount sets memoryStorage to newCount and reaches
\* `await redisClient.set(key, newCount)`
RedisGetSettles(i) ==
  /\ viewCalls[i].pc = "get"
  /\ LET count        == redisViews
         currentCount == IF count # Null THEN count.n
                         ELSE IF memoryViews # Null THEN memoryViews.n ELSE 0
         newCount     == currentCount + 1
     IN  /\ memoryViews' = Count(newCount)
         /\ viewCalls' = [viewCalls EXCEPT ![i].pc = "set", ![i].newCount = Count(newCount)]
  /\ UNCHANGED <<pc, req, url, gets, fetched, sharpMetadata, sanitizedSvg, handed, processed,
                 iconResult, res, redisViews,
                 colorVars, layoutVars, recolorVars, dynamicVars, classifyVars, memoryRepos, storageFiles, logoCalls, logoCache>>

\* the SET is acknowledged: the key holds this call's newCount, which the
\* call returns
RedisSetSettles(i) ==
  /\ viewCalls[i].pc = "set"
  /\ redisViews' = viewCalls[i].newCount
  /\ viewCalls' = [viewCalls EXCEPT ![i].pc = "done", ![i].returned = viewCalls[i].newCount]
  /\ UNCHANGED <<pc, req, url, gets, fetched, sharpMetadata, sanitizedSvg, handed, processed,
                 iconResult, res, memoryViews,
                 colorVars, layoutVars, recolorVars, dynamicVars, classifyVars, memoryRepos, storageFiles, logoCalls, logoCache>>

NextViews ==
  \E i \in Calls : IncrementViewCount(i) \/ RedisGetSettles(i) \/ RedisSetSettles(i)

SpecViews == InitViews /\ [][NextViews]_vars

\* ------------------------------------------------------------------------
\* badges/DynamicBadge.js: the count file of a repo, written by
\* incrementViewCount and read back by initializeMemoryStorage (SpecNames)
\* ------------------------------------------------------------------------

\* String.prototype.replace(pattern, replacement) with a string pattern:
\* the first occurrence only
replaceFirst(s, pattern, replacement) ==
  IF Includes(s, pattern)
    THEN LET i == CHOOSE k \in 0..(Len(s) - Len(pattern)) :
                    /\ SubSeq(s, k + 1, k + Len(pattern)) = pattern
                    /\ \A j \in 0..(k - 1) : SubSeq(s, j + 1, j + Len(pattern)) # pattern
         IN  SubSeq(s, 1, i) \o replacement \o SubSeq(s, i + Len(pattern) + 1, Len(s))
    ELSE s

\* String.prototype.replace(/c/g, replacement) for a one-character pattern
replaceEvery(s, c, replacement) ==
  [i \in 1..Len(s) |-> IF s[i] = c THEN replacement ELSE s[i]]

\* the file name part of getViewCountFilePath(repo)
getViewCountFilePath(repo) ==
  replaceFirst(repo, <<"/">>, <<"-">>) \o <<"-","v","i","e","w","s","-","c","o","u","n","t">>

\* initializeMemoryStorage: the repo key derived from a count file's name
repoOfCountFile(countFile) ==
  replaceEvery(replaceFirst(countFile, <<"-","v","i","e","w","s","-","c","o","u","n","t">>, <<>>), "-", "/")

MaxPartLen == 2

\* owner/name identifiers, lower case as the badge constructors leave them
RepoIds ==
  LET parts == UNION {[1..n -> {"a", "b", "-"}] : n \in 1..MaxPartLen}
  IN  {owner \o <<"/">> \o name : owner \in parts, name \in parts}

InitNames ==
  /\ pc = "running"
  /\ req \in {[repo |-> Str(repo)] : repo \in RepoIds}
  /\ logoCache = Pending
  /\ logoCalls = Pending
  /\ storageFiles = {}
  /\ memoryRepos = {}
  /\ redisViews = Pending
  /\ memoryViews = Pending
  /\ viewCalls = Pending
  /\ url = Pending
  /\ gets = <<>>
  /\ fetched = Pending
  /\ logoCache = Pending
  /\ logoCalls = Pending
  /\ sharpMetadata = Pending
  /\ sanitizedSvg = Pending
  /\ handed = {}
  /\ processed = Pending
  /\ iconResult = Pending
  /\ res = Pending
  /\ dynamicValue = Pending
  /\ generated = Pending
  /\ IdleColor /\ IdleLayout /\ IdleRecolor /\ IdleClassify

\* incrementViewCount(repo) with file storage: the view log is appended
\* to and the count file written
WriteCountFile ==
  /\ pc = "running"
  /\ storageFiles' = storageFiles
       \cup { replaceFirst(req.repo.s, <<"/">>, <<"-">>) \o <<"-","v","i","e","w","s">>,
              getViewCountFilePath(req.repo.s) }
  /\ pc' = "written"
  /\ UNCHANGED <<req, url, gets, fetched, sharpMetadata, sanitizedSvg, handed, processed,
                 iconResult, res, memoryViews, redisViews, viewCalls, memoryRepos,
                 colorVars, layoutVars, recolorVars, dynamicVars, classifyVars, logoCalls, logoCache>>

\* the server restarts: initializeMemoryStorage lists STORAGE_PATH and
\* loads every file whose name ends in -views-count
InitializeMemoryStorage ==
  /\ pc = "written"
  /\ memoryRepos' = { repoOfCountFile(countFile) :
                        countFile \in {file \in storageFiles : EndsWith(file, <<"-","v","i","e","w","s","-","c","o","u","n","t">>)} }
  /\ pc' = "restarted"
  /\ UNCHANGED <<req, url, gets, fetched, sharpMetadata, sanitizedSvg, handed, processed,
                 iconResult, res, memoryViews, redisViews, viewCalls, storageFiles,
                 colorVars, layoutVars, recolorVars, dynamicVars, classifyVars, logoCalls, logoCache>>

NextNames == WriteCountFile \/ InitializeMemoryStorage

SpecNames == InitNames /\ [][NextNames]_vars

\* ------------------------------------------------------------------------
\* src/unnamed/part_001: processLogo(url, quality) with logoCache, calls
\* overlapping at their awaits (SpecLogo)
\* ------------------------------------------------------------------------

MaxLogoCalls == 2

\* the logo and logoQuality parameters of GET /badge, passed on as they came
LogoUrls == {<<"h",":","/","/","x","/","a">>, <<"h",":","/","/","x","/","a","_","b">>}

LogoQualities == {<<"h","i","g","h">>, <<"b","_","h","i","g","h">>}

\* the ProcessedIcon that processSvgImage or processPixelImage builds from
\* the image behind the url u at the given quality
ProcessedIcon(u, quality) ==
  [ dataUri |-> [image |-> u, quality |-> quality], width |-> 16, height |-> 16 ]

cacheKey(u, quality) == u \o <<"_">> \o quality

InitLogo ==
  /\ pc = "listening"
  /\ logoCache = <<>>
  /\ logoCalls = [i \in 1..MaxLogoCalls |->
                    [pc |-> "idle", url |-> Null, quality |-> Null, hit |-> FALSE, returned |-> Pending]]
  /\ gets = <<>>
  /\ req = Pending
  /\ storageFiles = Pending
  /\ memoryRepos = Pending
  /\ redisViews = Pending
  /\ memoryViews = Pending
  /\ viewCalls = Pending
  /\ url = Pending
  /\ fetched = Pending
  /\ sharpMetadata = Pending
  /\ sanitizedSvg = Pending
  /\ handed = {}
  /\ processed = Pending
  /\ iconResult = Pending
  /\ res = Pending
  /\ dynamicValue = Pending
  /\ generated = Pending
  /\ IdleColor /\ IdleLayout /\ IdleRecolor /\ IdleClassify

\* processLogo up to its first await: a hit returns the entry, a miss
\* calls fetchImage, which issues its GET
ProcessLogo(i, u, quality) ==
  /\ logoCalls[i].pc = "idle"
  /\ IF cacheKey(u, quality) \in DOMAIN logoCache
       THEN /\ logoCalls' = [logoCalls EXCEPT ![i] =
                 [pc |-> "done", url |-> Str(u), quality |-> Str(quality), hit |-> TRUE,
                  returned |-> logoCache[cacheKey(u, quality)]]]
            /\ gets' = gets
       ELSE /\ logoCalls' = [logoCalls EXCEPT ![i] =
                 [pc |-> "fetch", url |-> Str(u), quality |-> Str(quality), hit |-> FALSE,
                  returned |-> Pending]]
            /\ gets' = Append(gets, [url |-> Str(u), timeout |-> 5000, by |-> i])
  /\ UNCHANGED <<pc, req, url, fetched, sharpMetadata, sanitizedSvg, handed, processed,
                 iconResult, res, memoryViews, redisViews, viewCalls, memoryRepos, storageFiles,
                 logoCache, colorVars, layoutVars, recolorVars, dynamicVars, classifyVars>>

\* fetchImage settles: without a buffer processLogo returns null, with
\* one it hands the buffer to processSvgImage or processPixelImage
LogoFetchSettles(i, ok) ==
  /\ logoCalls[i].pc = "fetch"
  /\ logoCalls' = [logoCalls EXCEPT ![i].pc = IF ok THEN "process" ELSE "done",
                                    ![i].returned = IF ok THEN Pending ELSE Null]
  /\ UNCHANGED <<pc, req, url, gets, fetched, sharpMetadata, sanitizedSvg, handed, processed,
                 iconResult, res, memoryViews, redisViews, viewCalls, memoryRepos, storageFiles,
                 logoCache, colorVars, layoutVars, recolorVars, dynamicVars, classifyVars>>

\* the processor settles with the icon or with null; only an icon is
\* stored
LogoProcessSettles(i, ok) ==
  /\ logoCalls[i].pc = "process"
  /\ LET key    == cacheKey(logoCalls[i].url.s, logoCalls[i].quality.s)
         result == IF ok THEN ProcessedIcon(logoCalls[i].url.s, logoCalls[i].quality.s) ELSE Null
     IN  /\ logoCache' = IF result # Null
                           THEN [k \in DOMAIN logoCache \cup {key} |->
                                   IF k = key THEN result ELSE logoCache[k]]
                           ELSE logoCache
         /\ logoCalls' = [logoCalls EXCEPT ![i].pc = "done", ![i].returned = result]
  /\ UNCHANGED <<pc, req, url, gets, fetched, sharpMetadata, sanitizedSvg, handed, processed,
                 iconResult, res, memoryViews, redisViews, viewCalls, memoryRepos, storageFiles,
                 colorVars, layoutVars, recolorVars, dynamicVars, classifyVars>>

\* an entry is older than ttl (one hour)
LogoTtlExpires(key) ==
  /\ key \in DOMAIN logoCache
  /\ logoCache' = [k \in DOMAIN logoCache \ {key} |-> logoCache[k]]
  /\ UNCHANGED <<pc, req, url, gets, fetched, sharpMetadata, sanitizedSvg, handed, processed,
                 iconResult, res, memoryViews, redisViews, viewCalls, memoryRepos, storageFiles,
                 logoCalls, colorVars, layoutVars, recolorVars, dynamicVars, classifyVars>>

NextLogo ==
  \/ \E i \in 1..MaxLogoCalls, u \in LogoUrls, quality \in LogoQualities : ProcessLogo(i, u, quality)
  \/ \E i \in 1..MaxLogoCalls, ok \in BOOLEAN : LogoFetchSettles(i, ok)
  \/ \E i \in 1..MaxLogoCalls, ok \in BOOLEAN : LogoProcessSettles(i, ok)
  \/ \E u \in LogoUrls, quality \in LogoQualities : LogoTtlExpires(cacheKey(u, quality))

SpecLogo == InitLogo /\ [][NextLogo]_vars

\* ------------------------------------------------------------------------
\* Properties of parseColor (SpecColor)
\* ------------------------------------------------------------------------

\* C4: parseColor is total: whatever the argument, the value returned has
\* integer r, g, b in 0..255, and it is white when the argument is not a
\* string, or is a string that is neither six hex digits nor (in any letter
\* case) the name of an own entry of COLORS.
C4_TotalWhiteFallback ==
  colorRet # Pending =>
    /\ DOMAIN colorRet = {"r", "g", "b"}
    /\ \A f \in {"r", "g", "b"} : colorRet[f] \in 0..255
    /\ ( \/ colorArg.t # "string"
         \/ /\ ~IsHex6(colorArg.s)
            /\ \A k \in DOMAIN COLORS : toLowerCase(colorArg.s) # toLowerCase(k) )
       => colorRet = White

\* C5: six hex digits decode to the same triple with or without a leading
\* "#", in any letter case.
C5_HexWithOrWithoutHash ==
  LET s      == colorArg.s
      digits == IF s # <<>> /\ Head(s) = "#" THEN Tail(s) ELSE s
  IN  (colorRet # Pending /\ colorArg.t = "string" /\ IsHex6(digits)) =>
        colorRet = RGB(parseInt16(digits, 0), parseInt16(digits, 2), parseInt16(digits, 4))

\* C6: every upper/lower-case spelling of a key of COLORS, the key's own
\* spelling included, returns that entry's triple.
C6_PaletteCaseInsensitive ==
  (colorRet # Pending /\ colorArg.t = "string") =>
    \A k \in DOMAIN COLORS :
      colorArg.s \in Spellings(k) => colorRet = COLORS[k]

\* ------------------------------------------------------------------------
\* Properties of the layout and the renderer (SpecLayout)
\* ------------------------------------------------------------------------

\* C7: for an icon of positive integer width and height the icon box
\* satisfies iconWidth <= 32 and 12 <= iconHeight <= 20.
C7_IconBoxClamped ==
  (badgeDims # Pending /\ badgeArgs.iconData # Null) =>
    /\ badgeDims.iconWidth <= 32
    /\ 12 <= badgeDims.iconHeight
    /\ badgeDims.iconHeight <= 20

\* C8: the corner radius of the background rect is a total function of the
\* edges string compared case-insensitively: rounded|round give 8,
\* square|sharp|squared give 0, pill gives 16, every other string gives 8.
C8_CornerRadiusTotal ==
  (badgeSvg # Pending /\ badgeArgs.edges.t = "string") =>
    LET e == toLowerCase(badgeArgs.edges.s)
        r == IF e \in {<<"s","q","u","a","r","e">>, <<"s","h","a","r","p">>,
                       <<"s","q","u","a","r","e","d">>} THEN 0
             ELSE IF e = <<"p","i","l","l">> THEN 16
             ELSE 8
    IN  badgeSvg.rect.cornerRadius =
          <<[name |-> "rx", value |-> r], [name |-> "ry", value |-> r]>>

\* C14: calculateBadgeDimensions keeps the icon's aspect ratio R = width /
\* height through every clamp: when the width clamp (width > 32), the height
\* clamp (height > 20) or the minimum height (height < 12) applies, one
\* dimension of the final icon box is the clamped one and the other is the
\* rounded value recomputed from it and R; when none applies the box is the
\* icon's own size.
C14_AspectRatioRecomputed ==
  (badgeDims # Pending /\ badgeArgs.iconData # Null) =>
    LET w == badgeArgs.iconData.width
        h == badgeArgs.iconData.height
        iconWidth  == badgeDims.iconWidth
        iconHeight == badgeDims.iconHeight
    IN  IF w > 32 \/ h > 20 \/ h < 12
          THEN \/ w > 32 /\ iconWidth = 32 /\ iconHeight = Round(32 * h, w)
               \/ h > 20 /\ iconHeight = 20 /\ iconWidth = Round(20 * w, h)
               \/ iconHeight = 12 /\ iconWidth = Round(12 * w, h)
          ELSE iconWidth = w /\ iconHeight = h

\* a 40 x 20 icon was clamped to width 32 and its height recomputed to 16
C14_Witness ==
  /\ badgeDims # Pending
  /\ badgeArgs.iconData # Null
  /\ badgeArgs.iconData.width = 40 /\ badgeArgs.iconData.height = 20
  /\ badgeDims.iconWidth = 32 /\ badgeDims.iconHeight = 16

\* ------------------------------------------------------------------------
\* Properties of changeSvgColor (SpecRecolor)
\* ------------------------------------------------------------------------

\* C2: on markup without an <image> element, every fill="..." or
\* stroke="..." attribute whose trimmed, lower-cased value is none,
\* transparent, currentcolor, starts with url( or contains gradient is the
\* same in the output, for any target colour; every other fill or stroke
\* attribute carries the target colour's formatted rgb value.
C2_PreserveListKept ==
  (svgRet # Pending /\ \A i \in 1..Len(svgArg.nodes) : ~IsImageTag(svgArg.nodes[i])) =>
    \A i \in 1..Len(svgArg.nodes) :
      svgArg.nodes[i].k = "tag" =>
        \A j \in 1..Len(svgArg.nodes[i].attrs) :
          LET a == svgArg.nodes[i].attrs[j]
              b == svgRet.nodes[i].attrs[j]
          IN  ("value" \in DOMAIN a /\ toLowerCase(a.name) \in {<<"f","i","l","l">>, <<"s","t","r","o","k","e">>}) =>
                IF \/ isPreservedPaint(a.value)
                   \/ toLowerCase(trim(a.value)) = <<"c","u","r","r","e","n","t","c","o","l","o","r">>
                  THEN b = a
                  ELSE b.value = formatRgb(parseColor(targetArg))

\* C13: changeSvgColor returns its input markup unchanged when no target
\* colour is given (undefined, null or the empty string), for pure-vector
\* markup and for markup that contains an <image> element.
C13_NoTargetColorNoChange ==
  (svgRet # Pending /\ targetArg \in {Undefined, Null, Str(<<>>)}) => svgRet = svgArg

\* ------------------------------------------------------------------------
\* Properties of the icon pipeline and the /badge route (Spec)
\* ------------------------------------------------------------------------

\* C1: generateStaticBadge never rejects because of the icon: for every icon
\* reference string and every outcome of the icon stages the request whose
\* other parameters are well-formed is answered 200 with the badge markup,
\* and the badge carries no icon when an icon stage failed.
C1_NeverRejectsOnIcon ==
  (pc = "done" /\ req.icon.t = "string" /\ req.edges.t = "string") =>
    /\ res.status = 200
    /\ "svg" \in DOMAIN res.body
    /\ (fetched = Null \/ processed = Null) => res.body.svg.image = Null

\* C3: a fetched buffer that isValidImageBuffer rejects is never handed to
\* the SVG sanitizer or to the raster decoder, and generateIcon returns null
\* for it, whichever branch isSvgBuffer selects.
C3_InvalidBufferNeverProcessed ==
  (processed # Pending /\ ~isValidImageBuffer(fetched.bytes)) =>
    handed = {} /\ iconResult = Null

\* C9: when the first GET of fetchImage fails with a timeout or a connection
\* reset, exactly one further GET is issued, with a longer timeout; null is
\* returned only after that retry failed too, and no call issues more than
\* two GETs.
C9_RetriesOnceOnTransientFailure ==
  /\ Len(gets) <= 2
  /\ (fetched # Pending /\ gets[1].outcome \in {"ETIMEDOUT", "ECONNRESET"}) =>
       /\ Len(gets) = 2
       /\ gets[2].timeout > gets[1].timeout
       /\ fetched = Null => gets[2].outcome \in FetchErrors

\* C10: a reference provider:name whose provider is a key of ICON_PROVIDERS
\* resolves to the provider's template with {icon} replaced by name; every
\* other reference (no colon, colon first, a prefix that is no key of the
\* table) resolves to the reference itself.
C10_TemplateOrUnchanged ==
  (url # Pending) =>
    LET iconParam  == req.icon.s
        colonIndex == indexOf(iconParam, ":")
        provider   == SubSeq(iconParam, 1, colonIndex)
        name       == SubSeq(iconParam, colonIndex + 2, Len(iconParam))
        template   == ICON_PROVIDERS[provider].s
        i          == CHOOSE j \in 1..Len(template) : SubSeq(template, j, j + 5) = <<"{","i","c","o","n","}">>
    IN  IF colonIndex > 0 /\ provider \in DOMAIN ICON_PROVIDERS
          THEN url = Str(SubSeq(template, 1, i - 1) \o name \o SubSeq(template, i + 6, Len(template)))
          ELSE url = Str(iconParam)

\* C11: a badge answered for a request whose cacheSeconds is a positive
\* number N carries Cache-Control "public, max-age=N", and the no-store
\* cache-busting headers are sent only when v is present.
C11_CacheSecondsSetsMaxAge ==
  (res # Pending /\ res.status = 200) =>
    /\ (req.cacheSeconds # Undefined /\ req.cacheSeconds.t = "string"
          /\ ~parseNumber(req.cacheSeconds.s).nan
          /\ parseNumber(req.cacheSeconds.s).n > 0 /\ ~Truthy(req.v)) =>
         res.headers.cacheControl
           = "public, max-age=" \o Join(numberToString(parseNumber(req.cacheSeconds.s).n))
    /\ (res.headers = NoStoreHeaders) => Truthy(req.v)

\* ------------------------------------------------------------------------
\* Properties of isValidImageBuffer (SpecClassify)
\* ------------------------------------------------------------------------

\* C12: a buffer that begins with a PNG, JPEG, GIF87a, GIF89a or RIFF
\* signature and has none of the markers <html, <!DOCTYPE, Error, <body in its
\* first 200 bytes is accepted; a buffer with <html or <!DOCTYPE in its first
\* 200 bytes is rejected whatever its signature; the empty buffer is rejected.
C12_SignatureAcceptedMarkerRejected ==
  (validRet # Pending) =>
    LET buffer   == bufferArg.bytes
        first200 == SubSeq(buffer, 1, Min(200, Len(buffer)))
        signed   == \E signature \in RasterSignatures :
                      /\ Len(buffer) >= Len(signature)
                      /\ SubSeq(buffer, 1, Len(signature)) = signature
        html     == Includes(first200, <<"<","h","t","m","l">>) \/ Includes(first200, <<"<","!","D","O","C","T","Y","P","E">>)
        marked   == html \/ Includes(first200, <<"E","r","r","o","r">>) \/ Includes(first200, <<"<","b","o","d","y">>)
    IN  /\ (signed /\ ~marked) => validRet.b
        /\ html => ~validRet.b
        /\ (buffer = <<>>) => ~validRet.b

\* a buffer with a raster signature and <html among its first 200 bytes was
\* rejected, and one with the marker pushed past byte 200 was accepted
C12_Witness ==
  /\ validRet # Pending
  /\ \E signature \in RasterSignatures :
       \/ /\ bufferArg.bytes = signature \o <<"<","h","t","m","l">>
          /\ ~validRet.b
       \/ /\ bufferArg.bytes = signature \o Pad \o <<"<","h","t","m","l">>
          /\ validRet.b

\* ------------------------------------------------------------------------
\* Properties of the dynamic route, /test and DynamicBadge.generate (SpecDynamic)
\* ------------------------------------------------------------------------

\* C15: no route sends exception details to the client: every answer with
\* status 500 has the fixed generic body 'Internal Server Error', never the
\* exception's message or stack.
C15_NoExceptionDetails ==
  (res # Pending /\ res.status = 500) => res.body = [text |-> "Internal Server Error"]

\* C16: every outbound GET issued while serving a badge carries a timeout, so
\* every request to the dynamic route is eventually answered even when an
\* upstream server never answers (only a GET with a timeout is granted to settle).
C16_EveryRequestAnswered ==
  (req # Pending /\ req.type # "base") ~> (res # Pending)

\* C18: DynamicBadge.generate never rejects.  When fetchData threw or the
\* rendering threw, it returns the error badge (text 'Error', red
\* background, no icon); otherwise, when icon generation threw or returned
\* null, it returns a badge without icon whose text holds the fetched value.
C18_GenerateNeverRejects ==
  (generated # Pending) =>
    /\ ~IsThrow(generated)
    /\ IF IsThrow(dynamicValue) \/ req.edges.t # "string"
         THEN /\ generated.text.content = Str(<<"E","r","r","o","r">>)
              /\ generated.rect.fill = <<"r","g","b","(","2","4","4",","," ","6","7",","," ","5","4",")">>
              /\ generated.rect.cornerRadius = <<[name |-> "rx", value |-> 0], [name |-> "ry", value |-> 0]>>
              /\ generated.image = Null
         ELSE /\ generated.text.content =
                   (IF Truthy(req.text) THEN Str(req.text.s \o <<":"," ">> \o dynamicValue.s)
                                        ELSE dynamicValue)
              /\ (iconResult = Null) => generated.image = Null

\* generate returned the error badge after the rendering threw on edges
\* that is no string, with the value 42 fetched
C18_Witness ==
  /\ generated # Pending
  /\ dynamicValue = Str(<<"4","2">>)
  /\ req.edges.t = "array"
  /\ generated = ErrorBadge

\* ------------------------------------------------------------------------
\* Properties of processSvgImage and generateIcon (Spec)
\* ------------------------------------------------------------------------

\* the cap on the target width in the 16-pixel pipeline of src/new.js
maxWidth == 40

\* C17: what processSvgImage returns is 16 high and never wider than a fixed
\* maximum width, whatever the aspect ratio of the source.
C17_WidthNeverExceedsMaximum ==
  ("sanitizer" \in handed /\ processed # Pending /\ processed # Null) =>
    /\ processed.height = 16
    /\ processed.width <= maxWidth

\* C19: a buffer whose first bytes are a PNG, JPEG, GIF or RIFF signature is
\* never handed to processSvgImage, even when <svg occurs within its first
\* 300 bytes: only a buffer with no raster signature is.
C19_RasterSignatureGoesToPixel ==
  (fetched # Pending /\ fetched # Null
     /\ \E signature \in RasterSignatures :
          /\ Len(fetched.bytes) >= Len(signature)
          /\ SubSeq(fetched.bytes, 1, Len(signature)) = signature) =>
    /\ pc # "processSvg"
    /\ "sanitizer" \notin handed

\* C20: the rewrite of the root <svg> tag removes only the attributes named
\* xmlns, xmlns:*, width, height and viewBox and adds each of xmlns, width,
\* height and viewBox once; every other attribute of the root, stroke-width
\* included, is in the output root with its name and value unchanged.
C20_OtherRootAttributesKept ==
  ("sanitizer" \in handed /\ processed # Pending /\ processed # Null
     /\ \E i \in 1..Len(sanitizedSvg.nodes) : IsSvgTag(sanitizedSvg.nodes[i])) =>
    LET first(nodes) == nodes[CHOOSE j \in 1..Len(nodes) :
                                IsSvgTag(nodes[j]) /\ \A k \in 1..(j - 1) : ~IsSvgTag(nodes[k])]
        inAttrs   == first(sanitizedSvg.nodes).attrs
        outAttrs  == first(processed.svgString).attrs
        sized     == {<<"w","i","d","t","h">>, <<"h","e","i","g","h","t">>, <<"v","i","e","w","B","o","x">>}
        rewritten(name) == name \in sized \/ StartsWith(name, <<"x","m","l","n","s">>)
    IN  /\ \A i \in 1..Len(inAttrs) :
             ~rewritten(inAttrs[i].name) => \E j \in 1..Len(outAttrs) : outAttrs[j] = inAttrs[i]
        /\ \A name \in sized \cup {<<"x","m","l","n","s">>} :
             Cardinality({j \in 1..Len(outAttrs) :
                            "name" \in DOMAIN outAttrs[j] /\ outAttrs[j].name = name}) = 1

\* ------------------------------------------------------------------------
\* Further properties of changeSvgColor (SpecRecolor)
\* ------------------------------------------------------------------------

\* C21: for markup that contains an <image> element, every <image> element
\* of the output carries filter="url(#subtle-colorize)" and the output holds
\* the <filter id="subtle-colorize"> definition with the target RGB, with or
\* without a <defs> in the input, self-closing <image/> or not.
C21_EveryImageFiltered ==
  (svgRet # Pending /\ Truthy(targetArg)
     /\ \E i \in 1..Len(svgArg.nodes) : IsImageTag(svgArg.nodes[i])) =>
    /\ \A i \in 1..Len(svgRet.nodes) :
         IsImageTag(svgRet.nodes[i]) =>
           \E a \in 1..Len(svgRet.nodes[i].attrs) :
             /\ svgRet.nodes[i].attrs[a].name = <<"f","i","l","t","e","r">>
             /\ svgRet.nodes[i].attrs[a].value = SubtleColorize
    /\ \E i \in 1..Len(svgRet.nodes) :
         /\ svgRet.nodes[i].k = "filter"
         /\ svgRet.nodes[i].id = <<"s","u","b","t","l","e","-","c","o","l","o","r","i","z","e">>
         /\ svgRet.nodes[i].rgb = parseColor(targetArg)

\* C22: on markup without an <image> element, a fill or stroke declaration
\* whose value is none, transparent, currentColor or url(...) is the same in
\* the output, in a style="..." attribute and in a <style> block alike; every
\* other fill or stroke declaration there carries the target colour.
C22_PreserveListKeptInCss ==
  (svgRet # Pending /\ Truthy(targetArg)
     /\ \A i \in 1..Len(svgArg.nodes) : ~IsImageTag(svgArg.nodes[i])) =>
    LET kept(value) ==
          LET v == toLowerCase(trim(value))
          IN  \/ v \in {<<"n","o","n","e">>, <<"t","r","a","n","s","p","a","r","e","n","t">>, <<"c","u","r","r","e","n","t","c","o","l","o","r">>}
              \/ StartsWith(v, <<"u","r","l","(">>)
        paint(decl) == toLowerCase(decl.prop) \in {<<"f","i","l","l">>, <<"s","t","r","o","k","e">>}
        right(a, b) == paint(a) =>
                         IF kept(a.value) THEN b = a
                         ELSE b.value = formatRgb(parseColor(targetArg))
    IN  \A i \in 1..Len(svgArg.nodes) :
          /\ svgArg.nodes[i].k = "css" =>
               \A d \in 1..Len(svgArg.nodes[i].decls) :
                 right(svgArg.nodes[i].decls[d], svgRet.nodes[i].decls[d])
          /\ svgArg.nodes[i].k = "tag" =>
               \A j \in 1..Len(svgArg.nodes[i].attrs) :
                 "decls" \in DOMAIN svgArg.nodes[i].attrs[j] =>
                   \A d \in 1..Len(svgArg.nodes[i].attrs[j].decls) :
                     right(svgArg.nodes[i].attrs[j].decls[d], svgRet.nodes[i].attrs[j].decls[d])

\* C28: changeSvgColor is idempotent: applied with the same target colour
\* to the markup it returned, it returns that markup unchanged.
C28_Idempotent ==
  svgRet # Pending => changeSvgColor(svgRet.nodes, targetArg) = svgRet.nodes

\* ------------------------------------------------------------------------
\* Properties of fetchImage of src/new.js (SpecFetch)
\* ------------------------------------------------------------------------

\* C23: no call of fetchImage returns a buffer larger than the 5 MB limit: a
\* response over the limit yields null on the first attempt and on the retry
\* that follows an ETIMEDOUT or ECONNRESET failure.
C23_NoBufferOverLimit ==
  (pc = "returned" /\ fetched # Null) => fetched.length <= 5 * 1024 * 1024

\* ------------------------------------------------------------------------
\* Properties of processPixelImage of src/new.js (SpecPixel)
\* ------------------------------------------------------------------------

\* C24: for a buffer that passes isValidImageBuffer and that the decoder
\* read and resized without error, processPixelImage returns a non-null
\* icon whose markup holds an <image>, with width and height following the
\* source aspect ratio.
C24_ValidRasterProcessed ==
  pc = "returnedAfterResize" =>
    /\ processed # Null
    /\ \E i \in DOMAIN processed.dataUri.base64 :
         /\ processed.dataUri.base64[i].k = "tag"
         /\ processed.dataUri.base64[i].name = <<"i","m","a","g","e">>
    /\ processed.width  >= 1
    /\ processed.height >= 1
    /\ (sharpMetadata.width = sharpMetadata.height => processed.width = processed.height)

\* ------------------------------------------------------------------------
\* Properties of incrementViewCount (SpecViews)
\* ------------------------------------------------------------------------

\* C25: once all the concurrent calls of incrementViewCount for the repo
\* have returned, they returned pairwise distinct values and the stored
\* count is the number of calls above the count before the first of them
\* (the smallest returned value is that count plus one).
C25_NoLostUpdate ==
  (pc = "serving" /\ \A i \in Calls : viewCalls[i].pc = "done") =>
    /\ \A i, j \in Calls : i # j => viewCalls[i].returned # viewCalls[j].returned
    /\ \E i \in Calls :
         /\ \A j \in Calls : viewCalls[i].returned.n <= viewCalls[j].returned.n
         /\ redisViews.n = viewCalls[i].returned.n + MaxCalls - 1

\* ------------------------------------------------------------------------
\* Further properties of generateIcon (Spec)
\* ------------------------------------------------------------------------

\* C26: every non-null result of generateIcon has width >= 1 and
\* height >= 1, whatever the aspect ratio of the source.
C26_IconAtLeastOnePixel ==
  (iconResult # Pending /\ iconResult # Null) =>
    (iconResult.width >= 1 /\ iconResult.height >= 1)

\* ------------------------------------------------------------------------
\* Further properties of generateBadgeSvg (SpecLayout)
\* ------------------------------------------------------------------------

\* C27: the characters written between <text ...> and </text> never
\* include a raw "<", ">" or "&": request text cannot introduce markup into
\* the badge.
C27_TextEscaped ==
  (badgeSvg # Pending /\ ~IsThrow(badgeSvg) /\ badgeSvg.text # Null
     /\ badgeSvg.text.content.t = "string") =>
    \A i \in DOMAIN badgeSvg.text.content.s :
      badgeSvg.text.content.s[i] \notin {"<", ">", "&"}

\* ------------------------------------------------------------------------
\* Properties of the count file names (SpecNames)
\* ------------------------------------------------------------------------

\* C29: the repo key that initializeMemoryStorage derives from the name of
\* the count file incrementViewCount wrote is the repo identifier the file
\* was written for.
C29_FileNameRoundTrip ==
  pc = "restarted" => memoryRepos = {req.repo.s}

\* ------------------------------------------------------------------------
\* Properties of processLogo (SpecLogo)
\* ------------------------------------------------------------------------

\* C30: logoCache never holds null; a call that hit the cache issued no
\* fetch and returned the icon that was produced for exactly its own url
\* and quality.
C30_CacheSound ==
  pc = "listening" =>
    /\ \A key \in DOMAIN logoCache : logoCache[key] # Null
    /\ \A i \in 1..MaxLogoCalls :
         logoCalls[i].hit =>
           /\ \A g \in 1..Len(gets) : gets[g].by # i
           /\ logoCalls[i].returned = ProcessedIcon(logoCalls[i].url.s, logoCalls[i].quality.s)

====
